---- MODULE Spec2Model ----
(***************************************************************************)
(* Microsoft Style Guide analysis engine                                   *)
(* (src/fastmcp_style_server.py, src/fastmcp_style_server_web.py).         *)
(*                                                                         *)
(* Texts are TLA+ strings; the regular expressions of the pattern library  *)
(* are matched character by character, the way Python's re module scans    *)
(* (leftmost match, alternatives in order, greedy quantifiers,             *)
(* non-overlapping findall/finditer).  Positions are 0-based like          *)
(* match.start(); string indices of SubSeq are 1-based.                    *)
(*                                                                         *)
(* Floating-point values with one or two decimals are held as integers in  *)
(* hundredths (scores) or tenths (avg_words_per_sentence).                 *)
(***************************************************************************)
EXTENDS Integers, Sequences, FiniteSets, TLC

VARIABLES
    text,            \* the text argument of the last call ("" when it takes none)
    analysis_type,   \* its analysis_type, focus_area or review_focus argument
    result,          \* the value returned by the last call
    change_history,  \* analyzer.change_history
    MCP_AVAILABLE,   \* which tool registration is active (FastMCP or MockApp)
    probe,           \* observer: one earlier analyze_content call and what it returned
    content_cache,   \* the web analyzer's content_cache: url -> the cached fetch result
    calls,           \* per thread, the tool call it is in the middle of
    clock,           \* the event loop's time, in seconds
    updater          \* the updater: the installation's files and where perform_update is

vars ==
    <<text, analysis_type, result, change_history, MCP_AVAILABLE, probe, content_cache, calls,
      clock, updater>>

(***************************************************************************)
(* Characters                                                              *)
(***************************************************************************)
Chr(s, i) == SubSeq(s, i, i)

UpperLetters == "ABCDEFGHIJKLMNOPQRSTUVWXYZ"
LowerLetters == "abcdefghijklmnopqrstuvwxyz"
Digits == "0123456789"

CharsOf(s) == {Chr(s, i) : i \in 1..Len(s)}

UpperSet == CharsOf(UpperLetters)

\* str.lower() on one character
LowerOf == [c \in UpperSet |->
              Chr(LowerLetters, CHOOSE i \in 1..Len(UpperLetters) : Chr(UpperLetters, i) = c)]

ToLowerChar(c) == IF c \in UpperSet THEN LowerOf[c] ELSE c

\* s[i..j] lowercased (halving keeps the evaluation shallow on long texts)
RECURSIVE LowerRange(_, _, _)
LowerRange(s, i, j) ==
    IF i > j THEN ""
    ELSE IF i = j THEN ToLowerChar(Chr(s, i))
    ELSE LET m == (i + j) \div 2
         IN  LowerRange(s, i, m) \o LowerRange(s, m + 1, j)

\* str.lower(); also how re.IGNORECASE compares ASCII text with a lowercase pattern
Lower(s) == LowerRange(s, 1, Len(s))

\* \w
WordChars == CharsOf(UpperLetters) \cup CharsOf(LowerLetters) \cup CharsOf(Digits) \cup {"_"}
IsWordChar(c) == c \in WordChars

\* \s, and the characters str.split() and str.strip() treat as blank
WhitespaceChars == {" ", "\n", "\t"}
IsSpaceChar(c) == c \in WhitespaceChars

\* [.!?]
SentenceEndChars == {".", "!", "?"}
IsSentenceEnd(c) == c \in SentenceEndChars

\* \b before index i (1..Len(s)+1)
WordBoundary(s, i) ==
    LET before == i > 1 /\ IsWordChar(Chr(s, i - 1))
        after  == i <= Len(s) /\ IsWordChar(Chr(s, i))
    IN  before # after

\* s[p:] starts with a
StartsWithAt(s, p, a) ==
    /\ p + Len(a) - 1 <= Len(s)
    /\ SubSeq(s, p, p + Len(a) - 1) = a

\* a in s
Contains(s, a) == \E p \in 1..(Len(s) - Len(a) + 1) : StartsWithAt(s, p, a)

\* the least element of a non-empty set of integers
SetMin(S) == CHOOSE x \in S : \A y \in S : x <= y

\* the end of the run of characters of class cls that starts at p (p - 1 when empty)
RunEnd(s, p, cls) ==
    IF p > Len(s) THEN p - 1
    ELSE (CHOOSE q \in p..(Len(s) + 1) :
            /\ q = Len(s) + 1 \/ Chr(s, q) \notin cls
            /\ \A r \in p..(q - 1) : Chr(s, r) \in cls) - 1

\* the end of the run of characters outside cls that starts at p (p - 1 when empty)
RunEndNot(s, p, cls) ==
    IF p > Len(s) THEN p - 1
    ELSE (CHOOSE q \in p..(Len(s) + 1) :
            /\ q = Len(s) + 1 \/ Chr(s, q) \in cls
            /\ \A r \in p..(q - 1) : Chr(s, r) \notin cls) - 1

(***************************************************************************)
(* Pattern library: self.patterns and self.terminology_standards           *)
(***************************************************************************)
contractions == <<"it's", "you're", "we're", "don't", "can't", "won't", "let's", "you'll", "we'll">>
passive_aux == <<"is", "are", "was", "were", "been", "be">>
gendered_pronouns == <<"he", "him", "his", "she", "her", "hers">>

\* the non-inclusive terms without "whitelist"
non_inclusive_terms_short ==
    <<"guys", "mankind", "blacklist", "master", "slave", "crazy", "insane", "lame">>

non_inclusive_terms ==
    <<"guys", "mankind", "blacklist", "whitelist", "master", "slave", "crazy", "insane", "lame">>
you_addressing == <<"you">>

LongSentenceMin == 100

terminology_standards == <<
    [term |-> "AI", correct |-> "AI", avoid |-> <<"A.I.">>, note |-> "No periods"],
    [term |-> "email", correct |-> "email", avoid |-> <<"e-mail">>, note |-> "One word"],
    [term |-> "website", correct |-> "website", avoid |-> <<"web site">>, note |-> "One word"],
    [term |-> "sign_in", correct |-> "sign in (verb), sign-in (noun)",
     avoid |-> <<"login", "log in">>, note |-> "Microsoft standard"],
    [term |-> "setup", correct |-> "set up (verb), setup (noun)",
     avoid |-> <<"setup (verb)">>, note |-> "Context dependent"],
    [term |-> "wifi", correct |-> "Wi-Fi", avoid |-> <<"WiFi", "wifi">>,
     note |-> "Hyphenated, both caps"] >>

style_guide_base_url == "https://learn.microsoft.com/en-us/style-guide"

(***************************************************************************)
(* Regular-expression matching                                             *)
(***************************************************************************)
\* the first alternative of alts (from index k) that matches \b(alts)\b at p of the
\* lowercased text low: its length, 0 when none matches
RECURSIVE AltLenFrom(_, _, _, _)
AltLenFrom(low, p, alts, k) ==
    IF k > Len(alts) THEN 0
    ELSE IF /\ StartsWithAt(low, p, alts[k])
            /\ WordBoundary(low, p + Len(alts[k]))
         THEN Len(alts[k])
         ELSE AltLenFrom(low, p, alts, k + 1)

\* r"\b(a|b|...)\b" at p, re.IGNORECASE
WordAltLenAt(low, p, alts) ==
    IF WordBoundary(low, p) THEN AltLenFrom(low, p, alts, 1) ELSE 0

\* the auxiliary of passive_voice at p that lets the rest of the pattern match:
\* r"\b(is|are|was|were|been|be)\s+\w*ed\b"; the length of the whole match, 0 when none
RECURSIVE PassiveLenFrom(_, _, _)
PassiveLenFrom(low, p, k) ==
    IF k > Len(passive_aux) THEN 0
    ELSE LET a      == passive_aux[k]
             ws     == p + Len(a)                         \* first char after the auxiliary
             wsEnd  == RunEnd(low, ws, WhitespaceChars)    \* \s+ is greedy
             runEnd == RunEnd(low, wsEnd + 1, WordChars)   \* \w* is greedy
         IN  IF /\ StartsWithAt(low, p, a)
                /\ wsEnd >= ws
                /\ runEnd - wsEnd >= 2
                /\ SubSeq(low, runEnd - 1, runEnd) = "ed"
             THEN runEnd - p + 1
             ELSE PassiveLenFrom(low, p, k + 1)

PassiveLenAt(low, p) ==
    IF WordBoundary(low, p) THEN PassiveLenFrom(low, p, 1) ELSE 0

\* r"[.!?]+\s*[A-Z][^.!?]{100,}[.!?]" at p (case-sensitive): length of the match, 0 when none
LongSentenceLenAt(s, p) ==
    LET endsEnd == RunEnd(s, p, SentenceEndChars)
        wsEnd   == RunEnd(s, endsEnd + 1, WhitespaceChars)
        cap     == wsEnd + 1
        bodyEnd == RunEndNot(s, cap + 1, SentenceEndChars)
    IN  IF /\ endsEnd >= p
           /\ cap <= Len(s)
           /\ Chr(s, cap) \in UpperSet
           /\ bodyEnd - cap >= LongSentenceMin
           /\ bodyEnd + 1 <= Len(s)
        THEN bodyEnd + 1 - p + 1
        ELSE 0

\* the length of the match of the named pattern at p of s (low = s lowercased)
MatchLenAt(pattern, s, low, p) ==
    CASE pattern = "contractions"        -> WordAltLenAt(low, p, contractions)
      [] pattern = "gendered_pronouns"   -> WordAltLenAt(low, p, gendered_pronouns)
      [] pattern = "non_inclusive_terms" -> WordAltLenAt(low, p, non_inclusive_terms)
      [] pattern = "you_addressing"      -> WordAltLenAt(low, p, you_addressing)
      [] pattern = "passive_voice"       -> PassiveLenAt(low, p)
      [] pattern = "long_sentences"      -> LongSentenceLenAt(s, p)

\* re.finditer scans from the left and resumes after each match: of the positions
\* cand where the pattern matches, it takes the first at or after p, then goes on
\* behind that match.  The matches as [start, text].
RECURSIVE FindIterFrom(_, _, _, _, _)
FindIterFrom(pattern, s, low, cand, p) ==
    LET rest == {q \in cand : q >= p}
    IN  IF rest = {} THEN <<>>
        ELSE LET q == SetMin(rest)
                 n == MatchLenAt(pattern, s, low, q)
             IN  <<[start |-> q - 1, text |-> SubSeq(s, q, q + n - 1)]>>
                   \o FindIterFrom(pattern, s, low, cand, q + n)

FindIter(pattern, s) ==
    LET low  == Lower(s)
        cand == {q \in 1..Len(s) : MatchLenAt(pattern, s, low, q) > 0}
    IN  FindIterFrom(pattern, s, low, cand, 1)

\* len(re.findall(pattern, s))
FindAllCount(pattern, s) == Len(FindIter(pattern, s))

(***************************************************************************)
(* Statistics: analyze_content, "Basic statistics"                         *)
(***************************************************************************)
\* len(text.split()): the maximal runs of non-blank characters, counted by their starts
WordCount(s) ==
    Cardinality({p \in 1..Len(s) :
                   /\ ~IsSpaceChar(Chr(s, p))
                   /\ p = 1 \/ IsSpaceChar(Chr(s, p - 1))})

\* s.strip() is non-empty
NonBlank(s) == \E i \in 1..Len(s) : ~IsSpaceChar(Chr(s, i))

\* len([s for s in re.split(r'[.!?]+', text) if s.strip()]): the fragments between
\* runs of sentence-end characters, counted by their starts, that are not blank
SentenceCount(s) ==
    Cardinality({p \in 1..Len(s) :
                   /\ ~IsSentenceEnd(Chr(s, p))
                   /\ p = 1 \/ IsSentenceEnd(Chr(s, p - 1))
                   /\ NonBlank(SubSeq(s, p, RunEndNot(s, p, SentenceEndChars)))})

Max(a, b) == IF a >= b THEN a ELSE b
Min(a, b) == IF a <= b THEN a ELSE b

\* seq[:n]
Prefix(seq, n) == SubSeq(seq, 1, Min(n, Len(seq)))

\* num / den cut, not rounded, to one decimal
TruncTenths(num, den) == (10 * num) \div den

\* round(num / den, 1) in tenths.  Python rounds the double nearest to num/den to the
\* nearest tenth, a tie going to the even tenth when the double is the tie exactly.
\* A quotient num/den is a tie only when it is k/20 with k odd; for den < 20 that is a
\* multiple of 1/4, which a double holds exactly, so the tie rule below is Python's.
RoundTenths(num, den) ==
    LET q == (10 * num) \div den
        r == (10 * num) % den
    IN  IF 2 * r > den THEN q + 1
        ELSE IF 2 * r < den THEN q
        ELSE IF q % 2 = 0 THEN q ELSE q + 1

Statistics(s) ==
    LET word_count     == WordCount(s)
        sentence_count == SentenceCount(s)
    IN  [word_count |-> word_count,
         sentence_count |-> sentence_count,
         avg_words_per_sentence |-> RoundTenths(word_count, Max(1, sentence_count))]

(***************************************************************************)
(* Issue detector: MicrosoftStyleGuideAnalyzer.analyze_content             *)
(*                                                                         *)
(* An issue or suggestion is a record holding exactly the keys the Python  *)
(* dict holds; Get mirrors dict.get(key, default).                         *)
(***************************************************************************)
Get(d, key, default) == IF key \in DOMAIN d THEN d[key] ELSE default

\* [f(x) for x in seq]
MapSeq(seq, F(_)) == [i \in 1..Len(seq) |-> F(seq[i])]

\* the issues of seq whose "type" is t, in order
RECURSIVE OfType(_, _)
OfType(seq, t) ==
    IF seq = <<>> THEN <<>>
    ELSE (IF Head(seq).type = t THEN <<Head(seq)>> ELSE <<>>) \o OfType(Tail(seq), t)

CountType(seq, t) == Len(OfType(seq, t))

\* "Voice and tone analysis": the contractions and direct-address detectors
VoiceToneIssues(s) ==
    IF FindAllCount("contractions", s) > 0 THEN <<>>
    ELSE <<[type |-> "voice_tone", severity |-> "info",
            message |-> "Consider using contractions (it's, you're, we'll) for a more natural tone",
            principle |-> "warm_and_relaxed"]>>

VoiceToneSuggestions(s) ==
    LET n_contractions == FindAllCount("contractions", s)
        you_usage      == FindAllCount("you_addressing", s)
    IN  (IF n_contractions > 0
         THEN <<[type |-> "positive",
                 message |-> "Good use of contractions (" \o ToString(n_contractions)
                             \o " found) - supports warm, natural tone",
                 principle |-> "warm_and_relaxed"]>>
         ELSE <<>>)
        \o
        (IF you_usage > 0
         THEN <<[type |-> "positive",
                 message |-> "Good use of 'you' (" \o ToString(you_usage)
                             \o " instances) - directly engages readers",
                 principle |-> "ready_to_help"]>>
         ELSE <<>>)

PassiveIssue(m) ==
    [type |-> "grammar", severity |-> "warning", position |-> m.start, text |-> m.text,
     message |-> "Consider using active voice for clarity", principle |-> "crisp_and_clear"]

LongSentenceIssue(m) ==
    [type |-> "grammar", severity |-> "info", position |-> m.start,
     message |-> "Long sentence detected - consider breaking into shorter sentences",
     principle |-> "crisp_and_clear"]

\* "Grammar analysis": passive voice, then long sentences
GrammarIssues(s) ==
    MapSeq(FindIter("passive_voice", s), PassiveIssue)
      \o MapSeq(FindIter("long_sentences", s), LongSentenceIssue)

\* the issues of one terminology entry: one per avoid term found in the lowercased text
RECURSIVE AvoidIssues(_, _, _)
AvoidIssues(low, standard, k) ==
    IF k > Len(standard.avoid) THEN <<>>
    ELSE LET avoid_term == standard.avoid[k]
         IN  (IF Contains(low, Lower(avoid_term))
              THEN <<[type |-> "terminology", severity |-> "warning", text |-> avoid_term,
                      message |-> "Use '" \o standard.correct \o "' instead of '"
                                  \o avoid_term \o "'",
                      note |-> standard.note]>>
              ELSE <<>>)
             \o AvoidIssues(low, standard, k + 1)

RECURSIVE TerminologyFrom(_, _)
TerminologyFrom(low, k) ==
    IF k > Len(terminology_standards) THEN <<>>
    ELSE AvoidIssues(low, terminology_standards[k], 1) \o TerminologyFrom(low, k + 1)

\* "Terminology analysis"
TerminologyIssues(s) == TerminologyFrom(Lower(s), 1)

NonInclusiveIssue(m) ==
    [type |-> "accessibility", severity |-> "error", position |-> m.start, text |-> m.text,
     message |-> "'" \o m.text \o "' may not be inclusive - consider alternatives",
     principle |-> "bias_free_communication"]

GenderedIssue(m) ==
    [type |-> "accessibility", severity |-> "warning", position |-> m.start, text |-> m.text,
     message |-> "Consider gender-neutral alternatives",
     principle |-> "bias_free_communication"]

\* "Accessibility analysis": non-inclusive terms, then gendered pronouns
AccessibilityIssues(s) ==
    MapSeq(FindIter("non_inclusive_terms", s), NonInclusiveIssue)
      \o MapSeq(FindIter("gendered_pronouns", s), GenderedIssue)

\* a status that counts the changes tracked so far as issues
StatusOfTracked(total_issues) ==
    IF total_issues + Len(change_history) = 0 THEN "Excellent"
    ELSE IF total_issues + Len(change_history) <= 2 THEN "Good"
    ELSE "Needs Work"

\* a status that still finds three issues good
StatusOfLenient(total_issues) ==
    IF total_issues = 0 THEN "Excellent"
    ELSE IF total_issues <= 3 THEN "Good"
    ELSE "Needs Work"

\* "Generate overall assessment" (the source puts an emoji before each status label)
StatusOf(total_issues) ==
    IF total_issues = 0 THEN "Excellent"
    ELSE IF total_issues <= 2 THEN "Good"
    ELSE "Needs Work"

AssessmentOf(total_issues) ==
    IF total_issues = 0 THEN "Content follows Microsoft Style Guide principles well"
    ELSE IF total_issues <= 2 THEN "Minor style improvements suggested"
    ELSE "Multiple style issues detected"

\* the detector groups analyze_content runs for an analysis_type
RunsVoiceTone(type) == type \in {"comprehensive", "voice_tone"}
RunsGrammar(type) == type \in {"comprehensive", "grammar"}

\* a terminology group that runs whatever the analysis_type
RunsTerminologyAlways(type) == TRUE

RunsTerminology(type) == type \in {"comprehensive", "terminology"}
RunsAccessibility(type) == type \in {"comprehensive", "accessibility"}

\* an issues list with the terminology group ahead of the grammar group
IssuesOfTerminologyFirst(s, type) ==
    (IF RunsVoiceTone(type) THEN VoiceToneIssues(s) ELSE <<>>)
      \o (IF RunsTerminology(type) THEN TerminologyIssues(s) ELSE <<>>)
      \o (IF RunsGrammar(type) THEN GrammarIssues(s) ELSE <<>>)
      \o (IF RunsAccessibility(type) THEN AccessibilityIssues(s) ELSE <<>>)

\* the issues list analyze_content builds, group by group
IssuesOf(s, type) ==
    (IF RunsVoiceTone(type) THEN VoiceToneIssues(s) ELSE <<>>)
      \o (IF RunsGrammar(type) THEN GrammarIssues(s) ELSE <<>>)
      \o (IF RunsTerminology(type) THEN TerminologyIssues(s) ELSE <<>>)
      \o (IF RunsAccessibility(type) THEN AccessibilityIssues(s) ELSE <<>>)

\* the suggestions list analyze_content builds
SuggestionsOf(s, type) ==
    IF RunsVoiceTone(type) THEN VoiceToneSuggestions(s) ELSE <<>>

\* "Overall assessment" and the dict analyze_content returns
AnalysisResult(issues, suggestions, statistics, type) ==
    [status |-> StatusOf(Len(issues)),
     assessment |-> AssessmentOf(Len(issues)),
     statistics |-> statistics,
     issues |-> issues,
     suggestions |-> suggestions,
     total_issues |-> Len(issues),
     analysis_type |-> type,
     style_guide_url |-> style_guide_base_url]

\* MicrosoftStyleGuideAnalyzer.analyze_content(text, analysis_type)
analyze_content(s, type) ==
    AnalysisResult(IssuesOf(s, type), SuggestionsOf(s, type), Statistics(s), type)

(***************************************************************************)
(* Score calculator: _calculate_quality_scores.  Scores are in hundredths: *)
(* 10.0 is 1000, the 2.0 penalty is 200, the 0.5 bonus is 50.              *)
(***************************************************************************)
ScoreMax == 1000

\* max(0, min(10, score))
\* a clamp that bounds the score from above only
ClampAbove(score) == Min(ScoreMax, score)

Clamp(score) == Max(0, Min(ScoreMax, score))

\* a voice score that rewards each 'you' like a contraction
VoiceScoreEqualBonus(analysis, document_text) ==
    LET n_contractions == FindAllCount("contractions", document_text)
        you_usage      == FindAllCount("you_addressing", document_text)
        voice_issues   == CountType(analysis.issues, "voice_tone")
    IN  Clamp(ScoreMax - voice_issues * 200
                + Min(n_contractions * 50, 200)
                + Min(you_usage * 50, 100))

\* a voice score that takes 4.0 for each voice_tone issue
VoiceScoreHeavyPenalty(analysis, document_text) ==
    LET n_contractions == FindAllCount("contractions", document_text)
        you_usage      == FindAllCount("you_addressing", document_text)
        voice_issues   == CountType(analysis.issues, "voice_tone")
    IN  Clamp(ScoreMax - voice_issues * 400
                + Min(n_contractions * 50, 200)
                + Min(you_usage * 20, 100))

VoiceScore(analysis, document_text) ==
    LET n_contractions == FindAllCount("contractions", document_text)
        you_usage      == FindAllCount("you_addressing", document_text)
        voice_issues   == CountType(analysis.issues, "voice_tone")
    IN  Clamp(ScoreMax - voice_issues * 200
                + Min(n_contractions * 50, 200)
                + Min(you_usage * 20, 100))

\* avg_words_per_sentence is in tenths: (avg - 25) * 0.1 is (tenths - 250) hundredths
ClarityScore(analysis) ==
    LET avg_sentence_length == analysis.statistics.avg_words_per_sentence
        clarity_issues      == CountType(analysis.issues, "grammar")
    IN  Clamp(ScoreMax - clarity_issues * 150
                - (IF avg_sentence_length > 250 THEN avg_sentence_length - 250 ELSE 0))

\* an accessibility score that charges an accessibility issue like a terminology issue
AccessibilityScoreLight(analysis) ==
    Clamp(ScoreMax - CountType(analysis.issues, "accessibility") * 200)

AccessibilityScore(analysis) ==
    Clamp(ScoreMax - CountType(analysis.issues, "accessibility") * 300)

ComplianceScore(analysis) ==
    Clamp(ScoreMax - CountType(analysis.issues, "terminology") * 200)

calculate_quality_scores(analysis, document_text) ==
    [voice_tone    |-> VoiceScore(analysis, document_text),
     clarity       |-> ClarityScore(analysis),
     accessibility |-> AccessibilityScore(analysis),
     compliance    |-> ComplianceScore(analysis)]

(***************************************************************************)
(* str(analysis): Python's repr of the analysis dict, which                *)
(* _generate_recommendations searches for contractions.  Keys come in      *)
(* insertion order; a string is quoted with ' unless it holds a ' and no   *)
(* ", and then with ".                                                     *)
(***************************************************************************)
\* one character of a string inside quotes of kind quote
EscapeChar(c, quote) ==
    IF c = "\\" THEN "\\\\"
    ELSE IF c = "\n" THEN "\\n"
    ELSE IF c = "\t" THEN "\\t"
    ELSE IF c = quote THEN "\\" \o c
    ELSE c

RECURSIVE EscapeRange(_, _, _, _)
EscapeRange(s, i, j, quote) ==
    IF i > j THEN ""
    ELSE IF i = j THEN EscapeChar(Chr(s, i), quote)
    ELSE EscapeRange(s, i, (i + j) \div 2, quote)
           \o EscapeRange(s, (i + j) \div 2 + 1, j, quote)

QuoteFor(s) == IF Contains(s, "'") /\ ~Contains(s, "\"") THEN "\"" ELSE "'"

\* repr(s) of a str
ReprStr(s) == QuoteFor(s) \o EscapeRange(s, 1, Len(s), QuoteFor(s)) \o QuoteFor(s)

\* repr of a float held in tenths
ReprTenths(t) == ToString(t \div 10) \o "." \o ToString(t % 10)

\* the keys of an issue or suggestion dict, in the order the literals list them
ItemKeys == <<"type", "severity", "position", "text", "message", "principle", "note">>

ReprValue(v, key) == IF key = "position" THEN ToString(v) ELSE ReprStr(v)

\* "'k1': v1, 'k2': v2" for the keys of d from the k-th of ItemKeys on
RECURSIVE ReprItemFrom(_, _, _)
ReprItemFrom(d, k, first) ==
    IF k > Len(ItemKeys) THEN ""
    ELSE IF ItemKeys[k] \notin DOMAIN d THEN ReprItemFrom(d, k + 1, first)
    ELSE (IF first THEN "" ELSE ", ")
           \o "'" \o ItemKeys[k] \o "': " \o ReprValue(d[ItemKeys[k]], ItemKeys[k])
           \o ReprItemFrom(d, k + 1, FALSE)

ReprItem(d) == "{" \o ReprItemFrom(d, 1, TRUE) \o "}"

RECURSIVE ReprItemsFrom(_, _)
ReprItemsFrom(seq, k) ==
    IF k > Len(seq) THEN ""
    ELSE (IF k = 1 THEN "" ELSE ", ") \o ReprItem(seq[k]) \o ReprItemsFrom(seq, k + 1)

\* repr of a list of dicts
ReprList(seq) == "[" \o ReprItemsFrom(seq, 1) \o "]"

ReprStatistics(st) ==
    "{'word_count': " \o ToString(st.word_count)
      \o ", 'sentence_count': " \o ToString(st.sentence_count)
      \o ", 'avg_words_per_sentence': " \o ReprTenths(st.avg_words_per_sentence) \o "}"

\* str(analysis)
StrOfAnalysis(analysis) ==
    "{'status': " \o ReprStr(analysis.status)
      \o ", 'assessment': " \o ReprStr(analysis.assessment)
      \o ", 'statistics': " \o ReprStatistics(analysis.statistics)
      \o ", 'issues': " \o ReprList(analysis.issues)
      \o ", 'suggestions': " \o ReprList(analysis.suggestions)
      \o ", 'total_issues': " \o ToString(analysis.total_issues)
      \o ", 'analysis_type': " \o ReprStr(analysis.analysis_type)
      \o ", 'style_guide_url': " \o ReprStr(analysis.style_guide_url) \o "}"

(***************************************************************************)
(* _generate_recommendations                                               *)
(***************************************************************************)
\* the alternatives of the regular expression _generate_recommendations searches for
recommendation_contractions == <<"it's", "you're", "we're", "don't", "can't", "won't">>

\* len(re.findall(r"\b(alts)\b", s, re.IGNORECASE)) > 0, low being s lowercased
FoundInLow(low, alts) == \E p \in 1..Len(low) : WordAltLenAt(low, p, alts) > 0

FoundIn(s, alts) == FoundInLow(Lower(s), alts)

FixInclusive == "Fix inclusive language violations - these are critical for Microsoft standards"
AddressAccessibility == "Address accessibility concerns immediately"
ImproveVoice == "Improve voice and tone to match Microsoft's warm, conversational style"
SimplifySentences == "Simplify complex sentences and reduce passive voice usage"
BreakDownSentences == "Break down long sentences for better readability"
UpdateTerminology == "Update terminology to match Microsoft standards"
AddContractions == "Add contractions to make tone more natural and conversational"

NoCriticalIssues == "No critical issues found"
MinorImprovements == "Minor style improvements available"
MeetsStandards == "Content meets Microsoft standards well"

\* [i for i in analysis["issues"] if i["type"] == "accessibility" and i["severity"] == "error"]
AccessibilityErrors(issues) ==
    SelectSeq(issues, LAMBDA i : i.type = "accessibility" /\ i.severity = "error")

HighPriority(analysis, quality_scores) ==
    (IF AccessibilityErrors(analysis.issues) # <<>> THEN <<FixInclusive>> ELSE <<>>)
      \o (IF quality_scores.accessibility < 700 THEN <<AddressAccessibility>> ELSE <<>>)

MediumPriority(analysis, quality_scores) ==
    (IF quality_scores.voice_tone < 700 THEN <<ImproveVoice>> ELSE <<>>)
      \o (IF quality_scores.clarity < 700 THEN <<SimplifySentences>> ELSE <<>>)
      \o (IF analysis.statistics.avg_words_per_sentence > 250
          THEN <<BreakDownSentences>> ELSE <<>>)

LowPriority(analysis, quality_scores) ==
    (IF quality_scores.compliance < 900 THEN <<UpdateTerminology>> ELSE <<>>)
      \o (IF ~FoundIn(StrOfAnalysis(analysis), recommendation_contractions)
          THEN <<AddContractions>> ELSE <<>>)

\* a bucket returned as it was filled
OrNothing(list, default) == list

\* list or [default]
OrDefault(list, default) == IF list = <<>> THEN <<default>> ELSE list

generate_recommendations(analysis, quality_scores) ==
    [high_priority   |-> OrDefault(HighPriority(analysis, quality_scores), NoCriticalIssues),
     medium_priority |-> OrDefault(MediumPriority(analysis, quality_scores), MinorImprovements),
     low_priority    |-> OrDefault(LowPriority(analysis, quality_scores), MeetsStandards)]

(***************************************************************************)
(* _generate_rewrite_examples                                              *)
(***************************************************************************)
\* the greatest element of a non-empty set of integers
SetMax(S) == CHOOSE x \in S : \A y \in S : x >= y

\* s.strip()
Strip(s) ==
    IF ~NonBlank(s) THEN ""
    ELSE SubSeq(s, SetMin({i \in 1..Len(s) : ~IsSpaceChar(Chr(s, i))}),
                   SetMax({i \in 1..Len(s) : ~IsSpaceChar(Chr(s, i))}))

\* s.replace(old, new) from index p on: the occurrences of old, left to right, not
\* overlapping
RECURSIVE ReplaceFrom(_, _, _, _)
ReplaceFrom(s, old, new, p) ==
    IF p > Len(s) THEN ""
    ELSE IF StartsWithAt(s, p, old) THEN new \o ReplaceFrom(s, old, new, p + Len(old))
    ELSE Chr(s, p) \o ReplaceFrom(s, old, new, p + 1)

Replace(s, old, new) == ReplaceFrom(s, old, new, 1)

\* the sentence around a match that starts at index q of s and is n long:
\* s[s.rfind('.', 0, match.start()) + 1 : s.find('.', match.end())].strip(), the end
\* of s standing in for a '.' that is not found
SentenceAround(s, q, n) ==
    Strip(SubSeq(s,
                 SetMax({0} \cup {i \in 1..(q - 1) : Chr(s, i) = "."}) + 1,
                 SetMin({Len(s) + 1} \cup {i \in (q + n)..Len(s) : Chr(s, i) = "."}) - 1))

\* r'\b(is|are|was|were|been|be)\s+(\w+ed)\b' at p of s (low = s lowercased), trying the
\* auxiliaries from the k-th on: the match as [len, aux, word], len 0 when none
RECURSIVE RewriteMatchFrom(_, _, _, _)
RewriteMatchFrom(s, low, p, k) ==
    IF k > Len(passive_aux) THEN [len |-> 0, aux |-> "", word |-> ""]
    ELSE IF /\ StartsWithAt(low, p, passive_aux[k])
            /\ RunEnd(low, p + Len(passive_aux[k]), WhitespaceChars)
                 >= p + Len(passive_aux[k])
            /\ RunEnd(low, RunEnd(low, p + Len(passive_aux[k]), WhitespaceChars) + 1,
                      WordChars)
                 - RunEnd(low, p + Len(passive_aux[k]), WhitespaceChars) >= 3
            /\ StartsWithAt(low,
                            RunEnd(low, RunEnd(low, p + Len(passive_aux[k]),
                                               WhitespaceChars) + 1, WordChars) - 1,
                            "ed")
         THEN [len  |-> RunEnd(low, RunEnd(low, p + Len(passive_aux[k]),
                                           WhitespaceChars) + 1, WordChars) - p + 1,
               aux  |-> SubSeq(s, p, p + Len(passive_aux[k]) - 1),
               word |-> SubSeq(s, RunEnd(low, p + Len(passive_aux[k]), WhitespaceChars) + 1,
                               RunEnd(low, RunEnd(low, p + Len(passive_aux[k]),
                                                  WhitespaceChars) + 1, WordChars))]
         ELSE RewriteMatchFrom(s, low, p, k + 1)

RewriteMatchAt(s, low, p) ==
    IF WordBoundary(low, p) THEN RewriteMatchFrom(s, low, p, 1)
    ELSE [len |-> 0, aux |-> "", word |-> ""]

\* the lambda of the substitution: what replaces one match
ActiveVoiceOf(m) ==
    IF m.aux \in {"is", "are"} THEN "the system " \o Replace(m.word, "ed", "s")
    ELSE "we " \o Replace(m.word, "ed", "")

\* re.sub from index p on: the text up to the next match is kept, the match replaced
RECURSIVE RewriteFrom(_, _, _, _)
RewriteFrom(s, low, cand, p) ==
    IF {q \in cand : q >= p} = {} THEN SubSeq(s, p, Len(s))
    ELSE SubSeq(s, p, SetMin({q \in cand : q >= p}) - 1)
           \o ActiveVoiceOf(RewriteMatchAt(s, low, SetMin({q \in cand : q >= p})))
           \o RewriteFrom(s, low, cand,
                          SetMin({q \in cand : q >= p})
                            + RewriteMatchAt(s, low, SetMin({q \in cand : q >= p})).len)

RewriteLow(s, low) ==
    RewriteFrom(s, low, {q \in 1..Len(s) : RewriteMatchAt(s, low, q).len > 0}, 1)

\* re.sub(..., original, flags=re.IGNORECASE)
RewriteActive(original) == RewriteLow(original, Lower(original))

ActiveVoiceExample(original) ==
    [category |-> "Active Voice", before |-> original, after |-> RewriteActive(original),
     explanation |-> "Changed from passive to active voice for clarity and directness"]

\* "Find passive voice examples"
ActiveVoiceExamples(passive_matches, document_text) ==
    IF passive_matches = <<>> THEN <<>>
    ELSE <<ActiveVoiceExample(SentenceAround(document_text, passive_matches[1].start + 1,
                                             Len(passive_matches[1].text)))>>

replacements ==
    [guys |-> "everyone", mankind |-> "humanity", blacklist |-> "block list",
     whitelist |-> "allow list", master |-> "primary", slave |-> "secondary"]

InclusiveExample(original_word) ==
    [category |-> "Inclusive Language",
     before |-> "..." \o original_word \o "...",
     after |-> "..." \o Get(replacements, Lower(original_word), "inclusive alternative")
                 \o "...",
     explanation |-> "Replaced '" \o original_word \o "' with more inclusive language"]

\* "Find non-inclusive language examples"
InclusiveExamples(non_inclusive_matches) ==
    IF non_inclusive_matches = <<>> THEN <<>>
    ELSE <<InclusiveExample(non_inclusive_matches[1].text)>>

NaturalToneExample ==
    [category |-> "Natural Tone",
     before |-> "You cannot access this feature.",
     after |-> "You can't access this feature.",
     explanation |-> "Added contractions for a more natural, conversational tone"]

\* a contractions example given for want of a "you're"
NaturalToneExamplesLoose(document_text) ==
    IF ~FoundIn(document_text, <<"you're">>) THEN <<NaturalToneExample>> ELSE <<>>

\* "Add contractions example if none found"
NaturalToneExamples(document_text) ==
    IF ~FoundIn(document_text, contractions) THEN <<NaturalToneExample>> ELSE <<>>

\* examples[:3]
ExampleLimit == 3

\* the examples with the contractions example put first
generate_rewrite_examples_tone_first(analysis, document_text) ==
    Prefix(NaturalToneExamples(document_text)
             \o ActiveVoiceExamples(FindIter("passive_voice", document_text), document_text)
             \o InclusiveExamples(FindIter("non_inclusive_terms", document_text)),
           ExampleLimit)

generate_rewrite_examples(analysis, document_text) ==
    Prefix(ActiveVoiceExamples(FindIter("passive_voice", document_text), document_text)
             \o InclusiveExamples(FindIter("non_inclusive_terms", document_text))
             \o NaturalToneExamples(document_text),
           ExampleLimit)

(***************************************************************************)
(* Executive summary: overall score, _get_quality_level,                   *)
(* _identify_strengths, _identify_critical_issues, _generate_next_steps.   *)
(* The overall score is in tenths.                                         *)
(***************************************************************************)
\* which way round() takes a mean that lies halfway between two tenths when the
\* doubles that hold the scores are not exact
Roundings == {"down", "up"}

\* every score is a multiple of 0.5, which a double holds exactly
ExactScores(quality_scores) ==
    \A k \in DOMAIN quality_scores : quality_scores[k] % 50 = 0

\* sum(quality_scores.values())
SumOfScores(quality_scores) ==
    quality_scores.voice_tone + quality_scores.clarity
      + quality_scores.accessibility + quality_scores.compliance

\* a mean cut to tenths
FloorMean(total, n, exact, rounding) == total \div (10 * n)

\* total hundredths over n scores rounded to tenths.  Off a tie round() takes the nearer
\* tenth.  A tie of exact doubles is exact itself and goes to the even tenth; a tie of
\* inexact doubles goes the way their representation error points, which is rounding.
RoundMean(total, n, exact, rounding) ==
    IF 2 * (total % (10 * n)) > 10 * n THEN total \div (10 * n) + 1
    ELSE IF 2 * (total % (10 * n)) < 10 * n THEN total \div (10 * n)
    ELSE IF exact
         THEN (IF (total \div (10 * n)) % 2 = 0 THEN total \div (10 * n)
               ELSE total \div (10 * n) + 1)
         ELSE (IF rounding = "up" THEN total \div (10 * n) + 1 ELSE total \div (10 * n))

\* round(sum(quality_scores.values()) / len(quality_scores), 1)
OverallScore(quality_scores, rounding) ==
    RoundMean(SumOfScores(quality_scores), Cardinality(DOMAIN quality_scores),
              ExactScores(quality_scores), rounding)

get_quality_level(score) ==
    IF score >= 90 THEN "Excellent"
    ELSE IF score >= 70 THEN "Good"
    ELSE IF score >= 50 THEN "Needs Improvement"
    ELSE "Requires Major Revision"

StrengthLimit == 3

identify_strengths(analysis, quality_scores) ==
    OrDefault(
        Prefix((IF quality_scores.voice_tone >= 800
                THEN <<"Strong Microsoft voice and tone compliance">> ELSE <<>>)
                 \o (IF quality_scores.accessibility >= 900
                     THEN <<"Excellent inclusive language usage">> ELSE <<>>)
                 \o (IF analysis.statistics.avg_words_per_sentence <= 200
                     THEN <<"Good sentence length for readability">> ELSE <<>>)
                 \o (IF Len(analysis.suggestions) > 0
                     THEN <<"Uses engaging, direct language effectively">> ELSE <<>>),
               StrengthLimit),
        "Content follows basic writing principles")

\* len([i for i in analysis["issues"] if "passive" in i.get("message", "")])
PassiveMessages(issues) ==
    Len(SelectSeq(issues, LAMBDA i : Contains(Get(i, "message", ""), "passive")))

PassiveLimit == 5
CriticalLimit == 3

identify_critical_issues(analysis) ==
    OrDefault(
        Prefix((IF AccessibilityErrors(analysis.issues) # <<>>
                THEN <<"Accessibility violations: "
                         \o ToString(Len(AccessibilityErrors(analysis.issues)))
                         \o " instances of non-inclusive language">>
                ELSE <<>>)
                 \o (IF analysis.statistics.avg_words_per_sentence > 300
                     THEN <<"Sentences are too long - will significantly impact readability">>
                     ELSE <<>>)
                 \o (IF PassiveMessages(analysis.issues) > PassiveLimit
                     THEN <<"Excessive passive voice usage affects clarity">> ELSE <<>>),
               CriticalLimit),
        "No critical issues identified")

generate_next_steps(score, analysis) ==
    IF score >= 80
    THEN <<"Content is ready for publication", "Consider final proofreading pass">>
    ELSE IF score >= 60
    THEN <<"Address medium-priority recommendations", "Review with stakeholders",
           "One more revision recommended">>
    ELSE <<"Major revision needed", "Focus on high-priority issues first",
           "Consider restructuring content">>

ExecutiveSummary(analysis, quality_scores, overall_score) ==
    [overall_score |-> overall_score,
     quality_level |-> get_quality_level(overall_score),
     key_strengths |-> identify_strengths(analysis, quality_scores),
     critical_issues |-> identify_critical_issues(analysis),
     next_steps |-> generate_next_steps(overall_score, analysis)]

\* MicrosoftStyleGuideAnalyzer.review_document: the comprehensive analysis and the
\* quality scores computed from it
ReviewOf(analysis, document_text, quality_scores, rounding) ==
    [analysis |-> analysis,
     executive_summary |->
         ExecutiveSummary(analysis, quality_scores, OverallScore(quality_scores, rounding)),
     recommendations |-> generate_recommendations(analysis, quality_scores),
     rewrite_examples |-> generate_rewrite_examples(analysis, document_text),
     quality_scores |-> quality_scores,
     style_guide_url |-> style_guide_base_url]

ReviewResult(analysis, document_text, rounding) ==
    ReviewOf(analysis, document_text, calculate_quality_scores(analysis, document_text),
             rounding)

\* rounding stands for the representation error of the scores' doubles, which the
\* overall score alone depends on
review_document(document_text, rounding) ==
    ReviewResult(analyze_content(document_text, "comprehensive"), document_text, rounding)

(***************************************************************************)
(* suggest_improvements and _get_improvement_suggestion                    *)
(***************************************************************************)
get_improvement_suggestion(issue) ==
    IF issue.type = "voice_tone"
    THEN "Use more contractions and direct language to sound natural and friendly"
    ELSE IF issue.type = "grammar" /\ Contains(issue.message, "passive")
    THEN "Change '" \o Get(issue, "text", "") \o "' to active voice"
    ELSE IF issue.type = "terminology"
    THEN "Replace with Microsoft-approved term as noted"
    ELSE IF issue.type = "accessibility"
    THEN "Use inclusive alternative for '" \o Get(issue, "text", "") \o "'"
    ELSE "Follow Microsoft Style Guide recommendations"

ImprovementOf(issue) ==
    [issue |-> issue.message, suggestion |-> get_improvement_suggestion(issue),
     type |-> issue.type, severity |-> issue.severity]

\* the improvements of the issues that pass the focus filter, in order
RECURSIVE FocusImprovements(_, _)
FocusImprovements(issues, focus_area) ==
    IF issues = <<>> THEN <<>>
    ELSE (IF focus_area = "all" \/ Head(issues).type = focus_area
          THEN <<ImprovementOf(Head(issues))>> ELSE <<>>)
         \o FocusImprovements(Tail(issues), focus_area)

PreviewLen == 100

\* "Add general improvements"
GeneralImprovements(analysis) ==
    IF analysis.statistics.avg_words_per_sentence > 250
    THEN <<[issue |-> "Average sentence length is high",
            suggestion |-> "Break long sentences into shorter, clearer ones",
            type |-> "grammar", severity |-> "info"]>>
    ELSE <<>>

\* the improvements list suggest_improvements builds from the analysis
AllImprovements(analysis, focus_area) ==
    FocusImprovements(analysis.issues, focus_area) \o GeneralImprovements(analysis)

\* the dict suggest_improvements returns
ImprovementsResult(s, focus_area, improvements) ==
    [text_preview |-> IF Len(s) > PreviewLen THEN SubSeq(s, 1, PreviewLen) \o "..." ELSE s,
     total_improvements |-> Len(improvements),
     improvements |-> improvements,
     focus_area |-> focus_area,
     style_guide_url |-> style_guide_base_url \o "/top-10-tips-style-voice"]

suggest_improvements(s, focus_area) ==
    ImprovementsResult(s, focus_area,
                       AllImprovements(analyze_content(s, "comprehensive"), focus_area))

(***************************************************************************)
(* Change log: track_change and get_github_updates_summary.  An entry      *)
(* holds file_path, line_number and description (its timestamp, the time   *)
(* of the call, is read by nothing and left out).                          *)
(***************************************************************************)
ChangeEntry(file_path, line_number, change_description) ==
    [file_path |-> file_path, line_number |-> line_number,
     description |-> change_description]

\* a change put at the head of the log
track_change_front(history, file_path, line_number, change_description) ==
    <<ChangeEntry(file_path, line_number, change_description)>> \o history

\* self.change_history.append(change_entry)
track_change(history, file_path, line_number, change_description) ==
    Append(history, ChangeEntry(file_path, line_number, change_description))

\* a bullet that names the line alone
FormatChangeLineOnly(change) == "- (line " \o ToString(change.line_number) \o ")"

FormatChange(change) ==
    "- " \o change.description
      \o (IF change.line_number > 0
          THEN " (line " \o ToString(change.line_number) \o ")" ELSE "")

\* the dict get_github_updates_summary returns (its date is not modelled; the summary
\* text is the bullets of formatted_changes and the count total_updates)
SummaryOf(total_updates, formatted_changes, changes) ==
    [total_updates |-> total_updates,
     formatted_changes |-> IF formatted_changes = <<>>
                           THEN <<"- No changes tracked in current session">>
                           ELSE formatted_changes,
     changes |-> changes]

get_github_updates_summary(history) ==
    SummaryOf(Len(history), MapSeq(history, FormatChange), history)

\* issue.get('position', 0) // 50 + 1
LineEstimateDiv == 50
LineEstimate(issue) == (Get(issue, "position", 0) \div LineEstimateDiv) + 1

\* one turn of the analyze_content tool's loop over result['issues']
TrackIssue(history, issue) ==
    track_change(history, "content_analysis", LineEstimate(issue),
                 "Style issue identified: " \o issue.message)

\* the analyze_content tool's loop over result['issues']: one tracked change per issue
RECURSIVE TrackIssues(_, _)
TrackIssues(history, issues) ==
    IF issues = <<>> THEN history
    ELSE TrackIssues(TrackIssue(history, Head(issues)), Tail(issues))

(***************************************************************************)
(* Web-enabled analyzer: WebEnabledStyleGuideAnalyzer                      *)
(* (src/fastmcp_style_server_web.py).  Its pattern library and terminology *)
(* table are the ones above.  A fetched page is kept as its url and the    *)
(* event-loop time of the fetch: the page's title and text are not         *)
(* modelled.                                                               *)
(***************************************************************************)
core_urls ==
    <<[section |-> "voice_tone",
       url |-> style_guide_base_url \o "/brand-voice-above-all-simple-human"],
      [section |-> "top_tips", url |-> style_guide_base_url \o "/top-10-tips-style-voice"],
      [section |-> "bias_free", url |-> style_guide_base_url \o "/bias-free-communication"],
      [section |-> "writing_tips",
       url |-> style_guide_base_url \o "/global-communications/writing-tips"],
      [section |-> "welcome", url |-> style_guide_base_url \o "/welcome/"],
      [section |-> "word_list",
       url |-> style_guide_base_url \o "/a-z-word-list-term-collections"]>>

Sections == {core_urls[i].section : i \in 1..Len(core_urls)}

UrlOf(section) ==
    core_urls[CHOOSE i \in 1..Len(core_urls) : core_urls[i].section = section].url

topic_mappings ==
    <<[key |-> "voice", section |-> "voice_tone"],
      [key |-> "tone", section |-> "voice_tone"],
      [key |-> "tips", section |-> "top_tips"],
      [key |-> "bias", section |-> "bias_free"],
      [key |-> "inclusive", section |-> "bias_free"],
      [key |-> "writing", section |-> "writing_tips"],
      [key |-> "grammar", section |-> "writing_tips"],
      [key |-> "words", section |-> "word_list"],
      [key |-> "terminology", section |-> "word_list"]>>


\* the sections get_official_guidance consults for a topic, at most SectionLimit of them
SectionLimit == 3

RelevantSections(topic) ==
    LET topic_lower == Lower(topic)
        Mentions(m) == Contains(topic_lower, m.key)
        mapped == MapSeq(SelectSeq(topic_mappings, Mentions), LAMBDA m : m.section)
        all == MapSeq(core_urls, LAMBDA u : u.section)
    IN  Prefix(IF mapped = <<>> THEN all ELSE mapped, SectionLimit)

\* what the network does to a request: a 200 response, another status, or an exception
Outcomes == {"ok", "http_error", "exception"}

EmptyCache == [url \in {} |-> [success |-> TRUE, url |-> url, timestamp |-> 0]]

\* self.cache_timeout, in seconds
cache_timeout == 3600

\* the result fetch_web_content builds from a 200 response at the time now
FetchedPage(url, now) == [success |-> TRUE, url |-> url, timestamp |-> now]

\* fetch_web_content(url) at the time now: the value returned
fetch_web_content(cache, url, outcome, now) ==
    IF url \in DOMAIN cache THEN cache[url]
    ELSE IF outcome = "ok" THEN FetchedPage(url, now)
    ELSE IF outcome = "http_error" THEN [success |-> FALSE, error |-> "HTTP error", url |-> url]
    ELSE [success |-> FALSE, error |-> "exception", url |-> url]

\* fetch_web_content(url) at the time now: content_cache afterwards
CacheAfterFetch(cache, url, outcome, now) ==
    IF url \notin DOMAIN cache /\ outcome = "ok"
    THEN [u \in DOMAIN cache \cup {url} |->
            IF u = url THEN FetchedPage(url, now) ELSE cache[u]]
    ELSE cache

\* the loop of get_official_guidance over the relevant sections from the k-th on
RECURSIVE GuidanceFrom(_, _, _, _, _)
GuidanceFrom(cache, sections, net, k, now) ==
    IF k > Len(sections) THEN [guidance |-> <<>>, cache |-> cache]
    ELSE LET section == sections[k]
             url == UrlOf(section)
             content_result == fetch_web_content(cache, url, net[section], now)
             rest == GuidanceFrom(CacheAfterFetch(cache, url, net[section], now),
                                  sections, net, k + 1, now)
         IN  [guidance |->
                 (IF content_result.success
                  THEN <<[section |-> section, url |-> url, official |-> TRUE]>>
                  ELSE <<>>) \o rest.guidance,
              cache |-> rest.cache]

\* get_official_guidance(topic)
get_official_guidance(cache, topic, net, now) ==
    GuidanceFrom(cache, RelevantSections(topic), net, 1, now)

\* how many issue types analyze_content asks guidance for
GuidanceLimit == 2

\* "Get live guidance for detected issues": issue_types is the list, in the order the
\* Python set happens to iterate, of the first GuidanceLimit issue types
RECURSIVE LiveGuidanceFrom(_, _, _, _, _)
LiveGuidanceFrom(cache, issue_types, net, k, now) ==
    IF k > Len(issue_types) THEN [live_guidance |-> {}, cache |-> cache]
    ELSE LET g == get_official_guidance(cache, issue_types[k], net, now)
             rest == LiveGuidanceFrom(g.cache, issue_types, net, k + 1, now)
         IN  [live_guidance |->
                 (IF g.guidance # <<>>
                  THEN {[issue_type |-> issue_types[k], guidance |-> g.guidance[1]]}
                  ELSE {}) \cup rest.live_guidance,
              cache |-> rest.cache]

IssueTypes(issues) == {issues[i].type : i \in 1..Len(issues)}

\* the orders list(set(...))[:2] can have
TypeOrders(types) ==
    {order \in [1..Min(GuidanceLimit, Cardinality(types)) -> types] :
        \A i, j \in DOMAIN order : i # j => order[i] # order[j]}

\* the web analyzer's "Additional pattern checks"
WebGrammarIssues(s) == MapSeq(FindIter("passive_voice", s), PassiveIssue)

WebAccessibilityIssues(s) == MapSeq(FindIter("non_inclusive_terms", s), NonInclusiveIssue)

WebIssues(s, type) ==
    VoiceToneIssues(s)
      \o (IF RunsGrammar(type) THEN WebGrammarIssues(s) ELSE <<>>)
      \o (IF RunsTerminology(type) THEN TerminologyIssues(s) ELSE <<>>)
      \o (IF RunsAccessibility(type) THEN WebAccessibilityIssues(s) ELSE <<>>)

\* WebEnabledStyleGuideAnalyzer.analyze_content(text, analysis_type): the value returned
\* and content_cache afterwards
\* the dict the web analyzer's analyze_content returns, with content_cache afterwards
WebAnalysisResult(issues, suggestions, statistics, type, live) ==
    [value |->
        [status |-> StatusOf(Len(issues)),
         assessment |-> AssessmentOf(Len(issues)),
         statistics |-> statistics,
         issues |-> issues,
         suggestions |-> suggestions,
         total_issues |-> Len(issues),
         analysis_type |-> type,
         style_guide_url |-> style_guide_base_url,
         live_guidance |-> live.live_guidance,
         web_enabled |-> TRUE],
     cache |-> live.cache]

\* an analysis that gives up its issues when a fetch can fail
web_analyze_content_fragile(cache, s, type, issue_types, net, now) ==
    WebAnalysisResult(IF \E section \in DOMAIN net : net[section] # "ok"
                      THEN <<>> ELSE WebIssues(s, type),
                      VoiceToneSuggestions(s), Statistics(s), type,
                      LiveGuidanceFrom(cache, issue_types, net, 1, now))

web_analyze_content(cache, s, type, issue_types, net, now) ==
    WebAnalysisResult(WebIssues(s, type), VoiceToneSuggestions(s), Statistics(s), type,
                      LiveGuidanceFrom(cache, issue_types, net, 1, now))

(***************************************************************************)
(* Inputs                                                                  *)
(***************************************************************************)
\* the longest text, in lexemes, that is enumerated exhaustively
MaxLen == 2

\* the pieces the enumerated texts are made of: a blank, a sentence end, a contraction,
\* the direct address, a passive auxiliary, an -ed word, a non-inclusive term, a
\* gendered pronoun, a disallowed term and a plain capitalised word
Lexemes == {" ", ".", "it's", "you", "is", "used", "whitelist", "he", "login", "Hello"}

RECURSIVE TextsOfLen(_)
TextsOfLen(n) ==
    IF n = 0 THEN {""} ELSE {t \o l : t \in TextsOfLen(n - 1), l \in Lexemes}

BoundedTexts == UNION {TextsOfLen(n) : n \in 0..MaxLen}

\* s repeated n times
RECURSIVE Repeat(_, _)
Repeat(s, n) ==
    IF n = 0 THEN ""
    ELSE IF n = 1 THEN s
    ELSE Repeat(s, n \div 2) \o Repeat(s, n - n \div 2)

HelloText == "Hello world. This is a test."
WarmText == "it's easy and you'll love it. you can do it."
FourTermsText == "guys mankind blacklist crazy"
WhitelistText == "Add the server to the whitelist."
PassiveText == "The file is opened by you. It was deleted."
GenderedText == "He asked her about the master copy."
TermsText == "Use your login for e-mail on the web site over WiFi."
QuarterText == "a.b.c.d"
DotsText == "..."
LongSentenceText == "Intro. A" \o Repeat("a", LongSentenceMin) \o "."
ShortSentenceText == "Intro. A" \o Repeat("a", LongSentenceMin - 1) \o "."
WordyText == Repeat("word ", 27) \o "end."
SevenPassivesText == Repeat("is used ", 7)
CleanText == "You can't miss it."
MixedText == "The whitelist is used by him for login."
ThirdsText == "a.b. c."
RoundUpText == "Now you know the file is saved."
EditedText == "The file is edited."
BareEdText == "It is ed."

ExampleTexts ==
    {HelloText, WarmText, FourTermsText, WhitelistText, PassiveText, GenderedText,
     TermsText, QuarterText, DotsText, LongSentenceText, ShortSentenceText, WordyText,
     SevenPassivesText, CleanText, MixedText, ThirdsText, RoundUpText, EditedText,
     BareEdText, "whitelist",
     " \n\t "}

Texts == BoundedTexts \cup ExampleTexts

AnalysisTypes == {"comprehensive", "voice_tone", "grammar", "terminology", "accessibility"}
FocusAreas == {"all", "voice_tone", "grammar", "terminology", "accessibility"}

(***************************************************************************)
(* The engine applied to one text                                          *)
(***************************************************************************)
NoResult == [op |-> "none", kind |-> "none"]

\* the threads that call the tools, and a thread that is in no call
Threads == {1, 2}
Idle == [op |-> "idle"]
NoCalls == [th \in Threads |-> Idle]

\* no updater at work
NoUpdater == [pc |-> "none"]
NoProbe == [text |-> "", type |-> "none"]

Init ==
    /\ text \in Texts
    /\ analysis_type = "comprehensive"
    /\ result = NoResult
    /\ change_history = <<>>
    /\ MCP_AVAILABLE = TRUE
    /\ probe = NoProbe
    /\ content_cache = EmptyCache
    /\ calls = NoCalls
    /\ clock = 0
    /\ updater = NoUpdater

\* analyzer.analyze_content(text, type)
AnalyzeContent(type) ==
    /\ result = NoResult
    /\ analysis_type' = type
    /\ result' = [op |-> "analyze_content", kind |-> "analysis",
                  value |-> analyze_content(text, type)]
    /\ UNCHANGED <<text, change_history, MCP_AVAILABLE, probe, content_cache, calls,
                   clock, updater>>

\* analyzer.review_document(text)
ReviewDocument ==
    /\ result = NoResult
    /\ \E rounding \in Roundings :
          result' = [op |-> "review_document", kind |-> "review",
                     value |-> review_document(text, rounding)]
    /\ UNCHANGED <<text, analysis_type, change_history, MCP_AVAILABLE, probe, content_cache, calls,
                   clock, updater>>

\* analyzer.suggest_improvements(text, focus_area)
SuggestImprovements(focus_area) ==
    /\ result = NoResult
    /\ analysis_type' = focus_area
    /\ result' = [op |-> "suggest_improvements", kind |-> "improvements",
                  value |-> suggest_improvements(text, focus_area)]
    /\ UNCHANGED <<text, change_history, MCP_AVAILABLE, probe, content_cache, calls,
                   clock, updater>>

\* what the network does to the requests of one call, per section
NetChoices ==
    {[section \in Sections |-> outcome] : outcome \in Outcomes}
      \cup {[section \in Sections |-> IF section = "voice_tone" THEN "exception" ELSE "ok"]}

\* the web analyzer's analyze_content(text, type)
WebAnalyzeContent(type) ==
    /\ result = NoResult
    /\ analysis_type' = type
    /\ \E issue_types \in TypeOrders(IssueTypes(WebIssues(text, type))), net \in NetChoices :
          \E r \in {web_analyze_content(content_cache, text, type, issue_types, net,
                                          clock)} :
              /\ result' = [op |-> "web_analyze_content", kind |-> "analysis",
                            value |-> r.value]
              /\ content_cache' = r.cache
    /\ UNCHANGED <<text, change_history, MCP_AVAILABLE, probe, calls, clock, updater>>

Next ==
    \/ \E type \in AnalysisTypes : AnalyzeContent(type)
    \/ \E type \in AnalysisTypes : WebAnalyzeContent(type)
    \/ ReviewDocument
    \/ \E focus_area \in FocusAreas : SuggestImprovements(focus_area)

Spec == Init /\ [][Next]_vars

(***************************************************************************)
(* Properties of the engine                                                *)
(***************************************************************************)
ScoreNames == {"voice_tone", "clarity", "accessibility", "compliance"}

Reviewed == result.kind = "review"
Analyzed == result.kind = "analysis"
AnalyzedOffline == Analyzed /\ result.op = "analyze_content"

\* the AnalysisResult a result carries
AnalysisOf(r) == IF r.kind = "review" THEN r.value.analysis ELSE r.value

\* an issue or suggestion of seq satisfies P
SomeItem(seq, P(_)) == \E i \in 1..Len(seq) : P(seq[i])

\* the 0-based positions where the word w stands in s as a whole word, whatever its case
WordOccurrences(s, w) ==
    {p \in 0..(Len(s) - Len(w)) :
        /\ StartsWithAt(Lower(s), p + 1, w)
        /\ WordBoundary(s, p + 1)
        /\ WordBoundary(s, p + Len(w) + 1)}

\* a disallowed variant of the terminology table occurs in s
HasAvoidTerm(s) ==
    \E k \in 1..Len(terminology_standards) :
        \E j \in 1..Len(terminology_standards[k].avoid) :
            Contains(Lower(s), Lower(terminology_standards[k].avoid[j]))

\* C1: for every non-blank text, each of the four scores returned by review lies in
\* [0, 10] (0..ScoreMax in hundredths), whatever the issue counts, the contraction and
\* 'you' counts and the average sentence length are.
C1_ScoresInRange ==
    (Reviewed /\ NonBlank(text)) =>
        \A k \in ScoreNames :
            /\ result.value.quality_scores[k] >= 0
            /\ result.value.quality_scores[k] <= ScoreMax

\* a review whose accessibility penalties exceed the whole score and are clamped at 0
C1_Witness ==
    /\ Reviewed
    /\ NonBlank(text)
    /\ ScoreMax - 300 * CountType(result.value.analysis.issues, "accessibility") < 0
    /\ result.value.quality_scores.accessibility = 0

\* C7: the accessibility score returned by review is max(0, 10 - 3n), n being the number
\* of accessibility issues found, which is the number of non-inclusive-term matches plus
\* the number of gendered-pronoun matches; with 4 non-inclusive-term matches it is 0.
C7_AccessibilityScore ==
    Reviewed =>
        LET n == CountType(result.value.analysis.issues, "accessibility")
            nonInclusive == FindAllCount("non_inclusive_terms", text)
        IN  /\ n = nonInclusive + FindAllCount("gendered_pronouns", text)
            /\ result.value.quality_scores.accessibility = Max(0, 1000 - 300 * n)
            /\ nonInclusive = 4 => result.value.quality_scores.accessibility = 0

\* the review of a text with four non-inclusive terms
C7_Witness ==
    /\ Reviewed
    /\ FindAllCount("non_inclusive_terms", text) = 4
    /\ CountType(result.value.analysis.issues, "accessibility") = 4
    /\ result.value.quality_scores.accessibility = 0

\* C8: the voice_tone score returned by review is
\* clamp(10 - 2v + min(0.5c, 2) + min(0.2y, 1), 0, 10), v being the number of voice_tone
\* issues, c the number of contraction matches and y the number of 'you' matches; the
\* positive signals never raise it above 10.
C8_VoiceToneScore ==
    Reviewed =>
        LET v == CountType(result.value.analysis.issues, "voice_tone")
            c == FindAllCount("contractions", text)
            y == FindAllCount("you_addressing", text)
            raw == 1000 - 200 * v + Min(50 * c, 200) + Min(20 * y, 100)
        IN  /\ result.value.quality_scores.voice_tone = Max(0, Min(1000, raw))
            /\ result.value.quality_scores.voice_tone <= 1000

\* a review whose positive signals would carry the score above 10
C8_Witness ==
    /\ Reviewed
    /\ FindAllCount("contractions", text) >= 2
    /\ FindAllCount("you_addressing", text) >= 2
    /\ CountType(result.value.analysis.issues, "voice_tone") = 0
    /\ result.value.quality_scores.voice_tone = 1000

FilterCategories == {"grammar", "terminology", "accessibility"}

\* C4: when analyze is called with a category c of grammar, terminology or
\* accessibility, every issue of the result whose category is not voice_tone has
\* category c (in the offline and in the web analyzer).
C4_FilterRestrictsIssues ==
    (Analyzed /\ analysis_type \in FilterCategories) =>
        \A i \in 1..Len(result.value.issues) :
            result.value.issues[i].type \in {"voice_tone", analysis_type}

\* a grammar analysis, holding a grammar issue, of a text that also holds a disallowed
\* term, a non-inclusive term and a gendered pronoun
C4_Witness ==
    /\ AnalyzedOffline
    /\ analysis_type = "grammar"
    /\ SomeItem(result.value.issues, LAMBDA issue : issue.type = "grammar")
    /\ HasAvoidTerm(text)
    /\ FindAllCount("non_inclusive_terms", text) > 0
    /\ FindAllCount("gendered_pronouns", text) > 0

\* C5: the contractions and direct-address detectors run for every category filter: the
\* result holds a positive warm_and_relaxed suggestion when the text has a contraction
\* and an info-severity voice_tone issue when it has none, and a positive ready_to_help
\* suggestion when the text has a 'you'.
C5_VoiceDetectorsAlwaysRun ==
    Analyzed =>
        LET c == FindAllCount("contractions", text)
            y == FindAllCount("you_addressing", text)
            Positive(principle) ==
                SomeItem(result.value.suggestions,
                         LAMBDA g : g.type = "positive" /\ g.principle = principle)
            InfoVoiceIssue ==
                SomeItem(result.value.issues,
                         LAMBDA issue : issue.type = "voice_tone" /\ issue.severity = "info")
        IN  /\ c >= 1 => Positive("warm_and_relaxed")
            /\ c = 0 => InfoVoiceIssue
            /\ y >= 1 => Positive("ready_to_help")

\* the text holds the word "whitelist" once and no disallowed variant of the
\* terminology table
WhitelistOnly(s) ==
    /\ Cardinality(WordOccurrences(s, "whitelist")) = 1
    /\ ~HasAvoidTerm(s)

IsWhitelistIssue(issue) ==
    /\ issue.type = "accessibility"
    /\ issue.severity = "error"
    /\ Lower(issue.text) = "whitelist"

\* C6 as stated: a comprehensive analyze of a text holding the word "whitelist" (and no
\* other disallowed term) produces exactly one terminology issue, which recommends
\* "allow list".
C6_WhitelistIsTerminology ==
    (AnalyzedOffline /\ analysis_type = "comprehensive" /\ WhitelistOnly(text)) =>
        LET terminology == OfType(result.value.issues, "terminology")
        IN  /\ Len(terminology) = 1
            /\ Contains(terminology[1].message, "allow list")

\* C6 amended: a comprehensive analyze of a text holding the word "whitelist" once (and
\* no disallowed variant of the terminology table) produces no terminology issue; it
\* produces exactly one error-severity accessibility issue for the word, at the word's
\* position, and no issue names "allow list".
C6_WhitelistIsAccessibility ==
    (AnalyzedOffline /\ analysis_type = "comprehensive" /\ WhitelistOnly(text)) =>
        LET found == {i \in 1..Len(result.value.issues) :
                         IsWhitelistIssue(result.value.issues[i])}
        IN  /\ OfType(result.value.issues, "terminology") = <<>>
            /\ Cardinality(found) = 1
            /\ \A i \in found :
                   result.value.issues[i].position \in WordOccurrences(text, "whitelist")
            /\ \A i \in 1..Len(result.value.issues) :
                   ~Contains(Lower(result.value.issues[i].message), "allow list")

\* the comprehensive analysis of a sentence holding "whitelist"
C6_Witness ==
    /\ AnalyzedOffline
    /\ analysis_type = "comprehensive"
    /\ WhitelistOnly(text)
    /\ Len(text) > Len("whitelist")
    /\ SomeItem(result.value.issues, IsWhitelistIssue)

\* avg (in tenths) is words / sentences rounded to one decimal
NearestTenth(avg, words, sentences) ==
    LET d == 10 * words - avg * sentences
    IN  2 * (IF d < 0 THEN -d ELSE d) <= sentences

StatisticsAgree ==
    LET stats == AnalysisOf(result).statistics
    IN  /\ stats.word_count = WordCount(text)
        /\ stats.sentence_count = SentenceCount(text)
        /\ NearestTenth(stats.avg_words_per_sentence, stats.word_count,
                        IF stats.sentence_count = 0 THEN 1 ELSE stats.sentence_count)
        /\ stats.sentence_count = 0 => stats.avg_words_per_sentence = 10 * stats.word_count

\* C9 as stated: avg_words_per_sentence is word_count / max(1, sentence_count) rounded
\* to one decimal, word_count being the number of whitespace-separated tokens and
\* sentence_count the number of non-blank fragments between runs of '.', '!' and '?';
\* for "Hello world. This is a test." it is 2.5 (5 words, 2 sentences); a text with zero
\* sentences gives no division by zero.
C9_AverageHelloIsTwoAndAHalf ==
    (Analyzed \/ Reviewed) =>
        /\ StatisticsAgree
        /\ text = HelloText =>
              /\ AnalysisOf(result).statistics.word_count = 5
              /\ AnalysisOf(result).statistics.sentence_count = 2
              /\ AnalysisOf(result).statistics.avg_words_per_sentence = 25

\* C9 amended: the same rounding rule, and for "Hello world. This is a test." the value
\* is 3.0 (6 words, 2 sentences).
C9_AverageRounded ==
    (Analyzed \/ Reviewed) =>
        /\ StatisticsAgree
        /\ text = HelloText =>
              /\ AnalysisOf(result).statistics.word_count = 6
              /\ AnalysisOf(result).statistics.sentence_count = 2
              /\ AnalysisOf(result).statistics.avg_words_per_sentence = 30

\* the analysis of "Hello world. This is a test."
C9_Witness ==
    /\ Analyzed
    /\ text = HelloText
    /\ AnalysisOf(result).statistics.word_count = 6
    /\ AnalysisOf(result).statistics.sentence_count = 2
    /\ AnalysisOf(result).statistics.avg_words_per_sentence = 30

\* C10: the status label of every AnalysisResult is determined by its issue count alone:
\* "Excellent" exactly with 0 issues, "Good" exactly with 1 or 2, "Needs Work" exactly
\* with 3 or more, each with its fixed assessment string.
C10_StatusByIssueCount ==
    (Analyzed \/ Reviewed) =>
        LET r == AnalysisOf(result)
            n == Len(r.issues)
        IN  /\ r.total_issues = n
            /\ r.status \in {"Excellent", "Good", "Needs Work"}
            /\ r.status = "Excellent" <=> n = 0
            /\ r.status = "Good" <=> n \in {1, 2}
            /\ r.status = "Needs Work" <=> n >= 3
            /\ r.status = "Excellent" =>
                  r.assessment = "Content follows Microsoft Style Guide principles well"
            /\ r.status = "Good" => r.assessment = "Minor style improvements suggested"
            /\ r.status = "Needs Work" => r.assessment = "Multiple style issues detected"

\* an analysis with exactly three issues, the fewest that need work
C10_Witness ==
    /\ Analyzed
    /\ Len(result.value.issues) = 3
    /\ result.value.status = "Needs Work"
    /\ result.value.assessment = "Multiple style issues detected"

\* the elements of a sequence
Range(seq) == {seq[i] : i \in 1..Len(seq)}

\* C11: in every review each of the three recommendation buckets is non-empty, and a
\* bucket is its single placeholder string exactly when none of its rules fired: for
\* high_priority an accessibility error or an accessibility score under 7, for
\* medium_priority a voice_tone or clarity score under 7 or an average sentence length
\* over 25, for low_priority a compliance score under 9 or the contractions advice
C11_BucketsNeverEmpty ==
    Reviewed =>
        /\ \A b \in {"high_priority", "medium_priority", "low_priority"} :
              result.value.recommendations[b] # <<>>
        /\ result.value.recommendations.high_priority = <<NoCriticalIssues>>
             <=> ~(\/ \E i \in Range(result.value.analysis.issues) :
                         i.type = "accessibility" /\ i.severity = "error"
                   \/ result.value.quality_scores.accessibility < 700)
        /\ result.value.recommendations.medium_priority = <<MinorImprovements>>
             <=> ~(\/ result.value.quality_scores.voice_tone < 700
                   \/ result.value.quality_scores.clarity < 700
                   \/ result.value.analysis.statistics.avg_words_per_sentence > 250)
        /\ result.value.recommendations.low_priority = <<MeetsStandards>>
             <=> ~(\/ result.value.quality_scores.compliance < 900
                   \/ AddContractions \in Range(result.value.recommendations.low_priority))
        /\ NoCriticalIssues \in Range(result.value.recommendations.high_priority)
             => result.value.recommendations.high_priority = <<NoCriticalIssues>>
        /\ MinorImprovements \in Range(result.value.recommendations.medium_priority)
             => result.value.recommendations.medium_priority = <<MinorImprovements>>
        /\ MeetsStandards \in Range(result.value.recommendations.low_priority)
             => result.value.recommendations.low_priority = <<MeetsStandards>>

\* a review whose high-priority rules fired and whose low-priority rules did not
C11_Witness ==
    /\ Reviewed
    /\ result.value.recommendations.high_priority
         = <<FixInclusive, AddressAccessibility>>
    /\ result.value.recommendations.medium_priority = <<MinorImprovements>>
    /\ result.value.recommendations.low_priority = <<MeetsStandards>>

\* C12: a review puts "Add contractions to make tone more natural and conversational"
\* in the low_priority bucket exactly when the reviewed text has no contraction
C12_ContractionAdviceWhenNoContractions ==
    Reviewed =>
        (AddContractions \in Range(result.value.recommendations.low_priority)
           <=> FindAllCount("contractions", text) = 0)

\* the place of a rewrite example's category in the fixed order
CategoryRank(category) ==
    CASE category = "Active Voice" -> 1
      [] category = "Inclusive Language" -> 2
      [] category = "Natural Tone" -> 3
      [] OTHER -> 0

HasCategory(examples, category) == \E e \in Range(examples) : e.category = category

\* C13: the rewrite examples of every review are at most 3, at most one per category and
\* in the order Active Voice, Inclusive Language, Natural Tone; an example is there
\* exactly when its trigger holds, so the cut to 3 drops none
C13_RewriteExamplesOrdered ==
    Reviewed =>
        /\ Len(result.value.rewrite_examples) <= 3
        /\ \A i \in 1..Len(result.value.rewrite_examples) :
              CategoryRank(result.value.rewrite_examples[i].category) > 0
        /\ \A i, j \in 1..Len(result.value.rewrite_examples) :
              i < j => CategoryRank(result.value.rewrite_examples[i].category)
                         < CategoryRank(result.value.rewrite_examples[j].category)
        /\ HasCategory(result.value.rewrite_examples, "Active Voice")
             <=> FindAllCount("passive_voice", text) > 0
        /\ HasCategory(result.value.rewrite_examples, "Inclusive Language")
             <=> FindAllCount("non_inclusive_terms", text) > 0
        /\ HasCategory(result.value.rewrite_examples, "Natural Tone")
             <=> FindAllCount("contractions", text) = 0

\* a review with all three examples
C13_Witness ==
    /\ Reviewed
    /\ Len(result.value.rewrite_examples) = 3
    /\ result.value.rewrite_examples[1].category = "Active Voice"
    /\ result.value.rewrite_examples[2].category = "Inclusive Language"
    /\ result.value.rewrite_examples[3].category = "Natural Tone"

\* C14: the review of a text without contractions includes the canned Natural Tone
\* example (before "You cannot access this feature.", after "You can't access this
\* feature."), also behind the two other examples; the review of a text with a
\* contraction has no Natural Tone example
C14_NaturalToneExample ==
    Reviewed =>
        /\ FindAllCount("contractions", text) = 0 =>
              \E e \in Range(result.value.rewrite_examples) :
                 /\ e.category = "Natural Tone"
                 /\ e.before = "You cannot access this feature."
                 /\ e.after = "You can't access this feature."
        /\ FindAllCount("contractions", text) > 0 =>
              ~HasCategory(result.value.rewrite_examples, "Natural Tone")

\* the canned example in third place, behind a passive-voice and an inclusive-language
\* example, for a text without contractions
C14_Witness ==
    /\ Reviewed
    /\ FindAllCount("contractions", text) = 0
    /\ FindAllCount("passive_voice", text) > 0
    /\ FindAllCount("non_inclusive_terms", text) > 0
    /\ result.value.rewrite_examples[3] = NaturalToneExample

\* C15: the overall score of every review is the mean of the four scores rounded to one
\* decimal (a tenth nearest to the mean), and the quality tier follows from it:
\* Excellent from 9, Good from 7, Needs Improvement from 5, else Requires Major Revision
C15_OverallScoreAndTier ==
    Reviewed =>
        /\ 40 * result.value.executive_summary.overall_score
             - SumOfScores(result.value.quality_scores) \in -20..20
        /\ result.value.executive_summary.quality_level =
             (IF result.value.executive_summary.overall_score >= 90 THEN "Excellent"
              ELSE IF result.value.executive_summary.overall_score >= 70 THEN "Good"
              ELSE IF result.value.executive_summary.overall_score >= 50
                   THEN "Needs Improvement"
              ELSE "Requires Major Revision")

\* a mean of 9.175 rounded up to 9.2, which is Excellent
C15_Witness ==
    /\ Reviewed
    /\ SumOfScores(result.value.quality_scores) = 3670
    /\ result.value.executive_summary.overall_score = 92
    /\ result.value.executive_summary.quality_level = "Excellent"

WebAnalyzed == result.op = "web_analyze_content"

\* C18: the web analyzer's analyze returns a complete analysis whatever the fetches
\* do: issues, suggestions, statistics, status and total_issues are the same for every
\* outcome of the fetches, fetches that all fail leave live_guidance empty, and
\* live_guidance is empty exactly when no page was fetched successfully
C18_WebAnalysisSurvivesFetchFailure ==
    WebAnalyzed =>
        /\ {"status", "assessment", "statistics", "issues", "suggestions", "total_issues",
            "analysis_type", "style_guide_url", "live_guidance"} \subseteq DOMAIN result.value
        /\ \A net \in NetChoices :
              \A order \in TypeOrders(IssueTypes(result.value.issues)) :
                 LET v == web_analyze_content(EmptyCache, text, analysis_type, order, net, 0).value
                 IN  /\ v.issues = result.value.issues
                     /\ v.suggestions = result.value.suggestions
                     /\ v.statistics = result.value.statistics
                     /\ v.status = result.value.status
                     /\ v.total_issues = result.value.total_issues
                     /\ (\A section \in Sections : net[section] # "ok")
                           => v.live_guidance = {}
        /\ result.value.live_guidance = {} <=> DOMAIN content_cache = {}
        /\ \A g \in result.value.live_guidance :
              g.issue_type \in IssueTypes(result.value.issues)

\* an analysis that needs work, returned in full although no fetch succeeded
C18_Witness ==
    /\ WebAnalyzed
    /\ result.value.status = "Needs Work"
    /\ result.value.total_issues = Len(result.value.issues)
    /\ result.value.total_issues >= 3
    /\ result.value.live_guidance = {}
    /\ DOMAIN content_cache = {}

\* the terminology issues among issues that name a disallowed variant of entry
EntryIssues(issues, entry) ==
    SelectSeq(issues, LAMBDA i : i.type = "terminology" /\ i.text \in Range(entry.avoid))

\* C19: analyze with the terminology detector enabled emits exactly one terminology
\* issue for each terminology-table entry with at least one disallowed variant in the
\* text (as a case-insensitive substring), and none for any other entry
C19_OneIssuePerEntry ==
    (Analyzed /\ RunsTerminology(analysis_type)) =>
        /\ \A k \in 1..Len(terminology_standards) :
              Len(EntryIssues(result.value.issues, terminology_standards[k]))
                = (IF \E a \in Range(terminology_standards[k].avoid) :
                         Contains(Lower(text), Lower(a))
                   THEN 1 ELSE 0)
        /\ \A i \in Range(result.value.issues) :
              i.type = "terminology" =>
                 \E k \in 1..Len(terminology_standards) :
                    i.text \in Range(terminology_standards[k].avoid)

\* the place of an issue's detector group in the execution order
TypeRank(type) ==
    CASE type = "voice_tone" -> 1
      [] type = "grammar" -> 2
      [] type = "terminology" -> 3
      [] type = "accessibility" -> 4
      [] OTHER -> 0

\* the place of an issue's detector within its group: passive voice before long
\* sentences, non-inclusive terms before gendered pronouns
DetectorRank(issue) ==
    IF issue.type = "grammar" THEN (IF "text" \in DOMAIN issue THEN 1 ELSE 2)
    ELSE IF issue.type = "accessibility" THEN (IF issue.severity = "error" THEN 1 ELSE 2)
    ELSE 1

Positioned(issue) == "position" \in DOMAIN issue

\* C20 as claimed: in every analysis the detector groups appear in execution order
\* (voice_tone, grammar, terminology, accessibility), and within one group the issues
\* that carry a position appear in non-decreasing position
C20_IssuesInPositionOrder ==
    (Analyzed \/ Reviewed) =>
        \A i, j \in 1..Len(AnalysisOf(result).issues) :
           i < j =>
              LET a == AnalysisOf(result).issues[i]
                  b == AnalysisOf(result).issues[j]
              IN  /\ TypeRank(a.type) > 0
                  /\ TypeRank(a.type) <= TypeRank(b.type)
                  /\ (a.type = b.type /\ Positioned(a) /\ Positioned(b))
                        => a.position <= b.position

\* C20 amended: the detector groups appear in execution order; within a group the
\* detectors appear in theirs (passive voice before long sentences, non-inclusive terms
\* before gendered pronouns); the issues of one detector appear in increasing position
C20_IssuesInDetectorOrder ==
    (Analyzed \/ Reviewed) =>
        \A i, j \in 1..Len(AnalysisOf(result).issues) :
           i < j =>
              LET a == AnalysisOf(result).issues[i]
                  b == AnalysisOf(result).issues[j]
              IN  /\ TypeRank(a.type) > 0
                  /\ TypeRank(a.type) <= TypeRank(b.type)
                  /\ a.type = b.type => DetectorRank(a) <= DetectorRank(b)
                  /\ (a.type = b.type /\ DetectorRank(a) = DetectorRank(b)
                        /\ Positioned(a) /\ Positioned(b))
                        => a.position < b.position

\* an analysis with two groups whose accessibility group lists a non-inclusive term
\* ahead of a gendered pronoun that stands earlier in the text
C20_Witness ==
    /\ Analyzed
    /\ \E i, j \in 1..Len(result.value.issues) :
          /\ i < j
          /\ result.value.issues[i].type = "voice_tone"
          /\ result.value.issues[j].type = "accessibility"
    /\ \E i, j \in 1..Len(result.value.issues) :
          /\ i < j
          /\ result.value.issues[i].type = "accessibility"
          /\ result.value.issues[j].type = "accessibility"
          /\ result.value.issues[i].position > result.value.issues[j].position

\* what the rule "auxiliary + X-ed" puts for one phrase the passive-voice detector
\* matched: X is the phrase's last word without its final "ed"
StatedActivePhrase(m) ==
    LET blanks == {i \in 1..Len(m) : IsSpaceChar(Chr(m, i))}
        aux    == SubSeq(m, 1, SetMin(blanks) - 1)
        X      == SubSeq(m, SetMax(blanks) + 1, Len(m) - 2)
    IN  IF Lower(aux) \in {"is", "are"} THEN "the system " \o X \o "s" ELSE "we " \o X

\* s from index p on with every phrase the passive-voice detector matches replaced
RECURSIVE StatedActiveFrom(_, _, _)
StatedActiveFrom(s, low, p) ==
    IF p > Len(s) THEN ""
    ELSE IF PassiveLenAt(low, p) > 0
         THEN StatedActivePhrase(SubSeq(s, p, p + PassiveLenAt(low, p) - 1))
                \o StatedActiveFrom(s, low, p + PassiveLenAt(low, p))
    ELSE Chr(s, p) \o StatedActiveFrom(s, low, p + 1)

\* C21: the Active Voice example of a review has as 'before' the sentence around the
\* first passive-voice match, and as 'after' that sentence with each phrase the
\* passive-voice detector matches replaced by "the system X-s" for is/are and by "we X"
\* for another auxiliary, X being the matched word without its final "ed"; 'after'
\* differs from 'before'
C21_ActiveVoiceRewrite ==
    Reviewed =>
        \A e \in Range(result.value.rewrite_examples) :
           e.category = "Active Voice" =>
              /\ e.before = SentenceAround(text, FindIter("passive_voice", text)[1].start + 1,
                                           Len(FindIter("passive_voice", text)[1].text))
              /\ e.after = StatedActiveFrom(e.before, Lower(e.before), 1)
              /\ e.after # e.before

\* C23: the voice_tone score of every review is at least 8: it is 10 when the text has
\* a contraction and between 8 and 9 when it has none, so the recommendation guarded
\* by voice_tone < 7 ("Improve voice and tone ...") is in no review
C23_VoiceToneAtLeastEight ==
    Reviewed =>
        /\ FindAllCount("contractions", text) > 0 =>
              result.value.quality_scores.voice_tone = 1000
        /\ FindAllCount("contractions", text) = 0 =>
              result.value.quality_scores.voice_tone \in 800..900
        /\ ImproveVoice \notin Range(result.value.recommendations.medium_priority)

\* a review of a text without contractions whose 'you' bonus lifts the score above 8
C23_Witness ==
    /\ Reviewed
    /\ FindAllCount("contractions", text) = 0
    /\ FindAllCount("you_addressing", text) > 0
    /\ result.value.quality_scores.voice_tone > 800
    /\ CountType(result.value.analysis.issues, "voice_tone") = 1

\* the passive-voice issues of an analysis: the issues the passive-voice detector emits
PassiveVoiceIssues(issues) ==
    SelectSeq(issues, LAMBDA i : i.type = "grammar" /\ i.severity = "warning"
                                   /\ i.message = "Consider using active voice for clarity")

\* C24: when the analysis of a reviewed text holds more than 5 passive-voice issues, the
\* critical issues of the review hold "Excessive passive voice usage affects clarity"
C24_ExcessivePassiveIsCritical ==
    Reviewed =>
        (Len(PassiveVoiceIssues(result.value.analysis.issues)) > 5 =>
            "Excessive passive voice usage affects clarity"
               \in Range(result.value.executive_summary.critical_issues))

\* C25: for suggest_improvements with a focus area other than "all", every entry of
\* the improvements list has the focus area as its type, whatever the average sentence
\* length of the text
C25_ImprovementsWithinFocus ==
    (result.kind = "improvements" /\ result.value.focus_area # "all") =>
        \A i \in Range(result.value.improvements) : i.type = result.value.focus_area

(***************************************************************************)
(* The server: the registered tools called one after another on the        *)
(* module-level analyzer, whose change_history lives for the process       *)
(***************************************************************************)
\* the longest change_history explored
MaxLog == 2

ServerTexts == {"", " \n\t ", CleanText, "whitelist"}
ServerTypes == {"comprehensive", "grammar"}
ServerFocus == {"all"}
TrackedLines == {12}
TrackedDescription == "Replaced 'whitelist' with 'allow list'"

InitServer ==
    /\ text = ""
    /\ analysis_type = "comprehensive"
    /\ result = NoResult
    /\ change_history = <<>>
    /\ MCP_AVAILABLE \in BOOLEAN
    /\ probe = NoProbe
    /\ content_cache = EmptyCache
    /\ calls = NoCalls
    /\ clock = 0
    /\ updater = NoUpdater

\* a check that rejects the empty string alone
RejectsEmpty(t) == t = ""

\* "if not text.strip()": the tools' check of their text argument
Rejects(t) == ~NonBlank(t)

ErrorResult(op, message) == [op |-> op, kind |-> "error", error |-> message]

\* the observer keeps the first analyze_content call it chose to remember, with the
\* length of change_history when that call returned
Observe(t, type, value, at) ==
    IF probe = NoProbe
    THEN probe' \in {NoProbe, [text |-> t, type |-> type, value |-> value, at |-> at]}
    ELSE probe' = probe

\* the analyze_content tool registered with FastMCP
ToolAnalyzeContent(t, type) ==
    /\ MCP_AVAILABLE
    /\ text' = t
    /\ analysis_type' = type
    /\ IF Rejects(t)
       THEN /\ result' = ErrorResult("analyze_content", "No text provided for analysis")
            /\ UNCHANGED <<change_history, probe>>
       ELSE \E r \in {analyze_content(t, type)} :
                /\ Len(change_history) + Len(r.issues) <= MaxLog
                /\ change_history' = TrackIssues(change_history, r.issues)
                /\ result' = [op |-> "analyze_content", kind |-> "analysis", value |-> r]
                /\ Observe(t, type, r, Len(change_history) + Len(r.issues))
    /\ UNCHANGED <<MCP_AVAILABLE, content_cache, calls, clock, updater>>

\* the analyze_content tool registered with MockApp
FallbackAnalyzeContent(t, type) ==
    /\ ~MCP_AVAILABLE
    /\ text' = t
    /\ analysis_type' = type
    /\ IF Rejects(t)
       THEN /\ result' = ErrorResult("analyze_content", "No text provided for analysis")
            /\ UNCHANGED probe
       ELSE \E r \in {analyze_content(t, type)} :
                /\ result' = [op |-> "analyze_content", kind |-> "analysis", value |-> r]
                /\ Observe(t, type, r, Len(change_history))
    /\ UNCHANGED <<change_history, MCP_AVAILABLE, content_cache, calls, clock, updater>>

\* the microsoft_document_reviewer tool registered with FastMCP
ToolDocumentReviewer(t) ==
    /\ MCP_AVAILABLE
    /\ text' = t
    /\ analysis_type' = "all"
    /\ \E rounding \in Roundings :
          result' = IF Rejects(t)
                    THEN ErrorResult("review_document", "No document text provided for review")
                    ELSE [op |-> "review_document", kind |-> "review",
                          value |-> review_document(t, rounding)]
    /\ UNCHANGED <<change_history, MCP_AVAILABLE, probe, content_cache, calls, clock, updater>>

\* the microsoft_document_reviewer tool registered with MockApp
FallbackDocumentReviewer(t) ==
    /\ ~MCP_AVAILABLE
    /\ text' = t
    /\ analysis_type' = "all"
    /\ \E rounding \in Roundings :
          result' = IF Rejects(t)
                    THEN ErrorResult("review_document", "No document text provided for review")
                    ELSE [op |-> "review_document", kind |-> "review",
                          value |-> review_document(t, rounding)]
    /\ UNCHANGED <<change_history, MCP_AVAILABLE, probe, content_cache, calls, clock, updater>>

\* the suggest_improvements tool registered with FastMCP
ToolSuggestImprovements(t, focus_area) ==
    /\ MCP_AVAILABLE
    /\ text' = t
    /\ analysis_type' = focus_area
    /\ result' = IF Rejects(t)
                 THEN ErrorResult("suggest_improvements",
                                  "No text provided for improvement suggestions")
                 ELSE [op |-> "suggest_improvements", kind |-> "improvements",
                       value |-> suggest_improvements(t, focus_area)]
    /\ UNCHANGED <<change_history, MCP_AVAILABLE, probe, content_cache, calls, clock, updater>>

\* the suggest_improvements tool registered with MockApp
FallbackSuggestImprovements(t, focus_area) ==
    /\ ~MCP_AVAILABLE
    /\ text' = t
    /\ analysis_type' = focus_area
    /\ result' = IF Rejects(t)
                 THEN ErrorResult("suggest_improvements", "No text provided")
                 ELSE [op |-> "suggest_improvements", kind |-> "improvements",
                       value |-> suggest_improvements(t, focus_area)]
    /\ UNCHANGED <<change_history, MCP_AVAILABLE, probe, content_cache, calls, clock, updater>>

\* the github_updates tool, which only MockApp registers
FallbackGithubUpdates ==
    /\ ~MCP_AVAILABLE
    /\ result' = [op |-> "github_updates", kind |-> "summary",
                  value |-> get_github_updates_summary(change_history)]
    /\ text' = ""
    /\ analysis_type' = "none"
    /\ UNCHANGED <<change_history, MCP_AVAILABLE, probe, content_cache, calls, clock, updater>>

\* analyzer.track_change called on the engine
TrackChange(file_path, line_number, change_description) ==
    /\ Len(change_history) < MaxLog
    /\ change_history' = track_change(change_history, file_path, line_number,
                                      change_description)
    /\ result' = [op |-> "track_change", kind |-> "none"]
    /\ text' = ""
    /\ analysis_type' = "none"
    /\ UNCHANGED <<MCP_AVAILABLE, probe, content_cache, calls, clock, updater>>

\* analyzer.get_github_updates_summary called on the engine
GetGithubUpdatesSummary ==
    /\ result' = [op |-> "get_github_updates_summary", kind |-> "summary",
                  value |-> get_github_updates_summary(change_history)]
    /\ text' = ""
    /\ analysis_type' = "none"
    /\ UNCHANGED <<change_history, MCP_AVAILABLE, probe, content_cache, calls, clock, updater>>

NextServer ==
    \/ \E t \in ServerTexts, type \in ServerTypes : ToolAnalyzeContent(t, type)
    \/ \E t \in ServerTexts, type \in ServerTypes : FallbackAnalyzeContent(t, type)
    \/ \E t \in ServerTexts : ToolDocumentReviewer(t)
    \/ \E t \in ServerTexts : FallbackDocumentReviewer(t)
    \/ \E t \in ServerTexts, focus_area \in ServerFocus : ToolSuggestImprovements(t, focus_area)
    \/ \E t \in ServerTexts, focus_area \in ServerFocus :
          FallbackSuggestImprovements(t, focus_area)
    \/ FallbackGithubUpdates
    \/ \E line_number \in TrackedLines :
          TrackChange("README.md", line_number, TrackedDescription)
    \/ GetGithubUpdatesSummary

SpecServer == InitServer /\ [][NextServer]_vars

(***************************************************************************)
(* Properties of the server                                                *)
(***************************************************************************)
TextTools == {"analyze_content", "review_document", "suggest_improvements"}

\* C2: a call of the analyze, review or suggest-improvements tool with empty or
\* whitespace-only text is rejected with an explicit error result: the result carries no
\* analysis, score or improvement list, and the change log is left unchanged.
C2_BlankTextRejected ==
    [][(result'.op \in TextTools /\ ~NonBlank(text')) =>
          /\ result'.kind = "error"
          /\ DOMAIN result' = {"op", "kind", "error"}
          /\ result'.error # ""
          /\ change_history' = change_history]_vars

\* a whitespace-only text rejected while the change log holds entries
C2_Witness ==
    /\ result.op \in TextTools
    /\ result.kind = "error"
    /\ text # ""
    /\ ~NonBlank(text)
    /\ Len(change_history) > 0

C16_SummaryCountsChanges ==
    result.kind = "summary" =>
        /\ result.value.total_updates = Len(change_history)
        /\ result.value.changes = change_history
        /\ Len(change_history) = 0 =>
              result.value.formatted_changes = <<"- No changes tracked in current session">>
        /\ Len(change_history) > 0 =>
              /\ Len(result.value.formatted_changes) = Len(change_history)
              /\ \A i \in 1..Len(change_history) :
                    /\ StartsWithAt(result.value.formatted_changes[i], 1, "- ")
                    /\ Contains(result.value.formatted_changes[i],
                                change_history[i].description)

\* a summary of two recorded changes with different descriptions
C16_Witness ==
    /\ result.kind = "summary"
    /\ result.value.total_updates = 2
    /\ change_history[1].description # change_history[2].description
    /\ ~Contains(result.value.formatted_changes[1], change_history[2].description)
    /\ ~Contains(result.value.formatted_changes[2], change_history[1].description)

\* C22: a call of the analyze tool that finds an issue appends to the change log, and
\* a call that finds none leaves the log as it is, in either registration of the tool
C22_AnalyzeTracksIssues ==
    [][(result'.op = "analyze_content" /\ result'.kind = "analysis") =>
          IF result'.value.issues # <<>>
          THEN /\ Len(change_history') > Len(change_history)
               /\ SubSeq(change_history', 1, Len(change_history)) = change_history
          ELSE change_history' = change_history]_vars

(***************************************************************************)
(* The server under concurrent calls: each thread runs one call at a time,  *)
(* and a call's accesses to analyzer.change_history are the steps other     *)
(* threads can come between.  list.append, len() and the reading of one     *)
(* element each happen in one step of the interpreter.                      *)
(***************************************************************************)
ThreadTexts == {"", "whitelist"}
ThreadTypes == {"comprehensive", "voice_tone"}

\* the entries a call in flight has yet to append
Pending(call) ==
    IF call.op = "track_change" THEN 1
    ELSE IF call.op = "analyze_content" THEN Len(call.value.issues) - call.k + 1
    ELSE 0

RECURSIVE PendingOf(_)
PendingOf(threads) ==
    IF threads = {} THEN 0
    ELSE Pending(calls[CHOOSE th \in threads : TRUE])
           + PendingOf(threads \ {CHOOSE th \in threads : TRUE})

SetCall(th, call) == calls' = [calls EXCEPT ![th] = call]

InitThreads ==
    /\ text = ""
    /\ analysis_type = "none"
    /\ result = NoResult
    /\ change_history = <<>>
    /\ MCP_AVAILABLE = TRUE
    /\ probe = NoProbe
    /\ content_cache = EmptyCache
    /\ calls = NoCalls
    /\ clock = 0
    /\ updater = NoUpdater

\* a thread enters analyzer.track_change: the entry it builds is its own
CallTrackChange(th, file_path, line_number, change_description) ==
    /\ calls[th] = Idle
    /\ Len(change_history) + PendingOf(Threads) < MaxLog
    /\ SetCall(th, [op |-> "track_change", file_path |-> file_path,
                    line_number |-> line_number, description |-> change_description])
    /\ UNCHANGED <<text, analysis_type, result, change_history, MCP_AVAILABLE, probe,
                   content_cache, clock, updater>>

\* self.change_history.append(change_entry), after which track_change returns
AppendChange(th) ==
    /\ calls[th].op = "track_change"
    /\ change_history' = track_change(change_history, calls[th].file_path,
                                      calls[th].line_number, calls[th].description)
    /\ result' = [op |-> "track_change", kind |-> "none"]
    /\ text' = ""
    /\ analysis_type' = "none"
    /\ SetCall(th, Idle)
    /\ UNCHANGED <<MCP_AVAILABLE, probe, content_cache, clock, updater>>

\* a thread enters get_github_updates_summary: total_updates = len(self.change_history)
CallGetSummary(th) ==
    /\ calls[th] = Idle
    /\ SetCall(th, [op |-> "summary", total_updates |-> Len(change_history),
                    formatted_changes |-> <<>>])
    /\ UNCHANGED <<text, analysis_type, result, change_history, MCP_AVAILABLE, probe,
                   content_cache, clock, updater>>

\* one turn of "for change in self.change_history": the list iterator hands out the next
\* element there is at that moment
FormatNextChange(th) ==
    /\ calls[th].op = "summary"
    /\ Len(calls[th].formatted_changes) < Len(change_history)
    /\ SetCall(th, [calls[th] EXCEPT !.formatted_changes =
                      Append(@, FormatChange(change_history[Len(@) + 1]))])
    /\ UNCHANGED <<text, analysis_type, result, change_history, MCP_AVAILABLE, probe,
                   content_cache, clock, updater>>

\* the iterator is exhausted and get_github_updates_summary returns
ReturnSummary(th) ==
    /\ calls[th].op = "summary"
    /\ Len(calls[th].formatted_changes) >= Len(change_history)
    /\ result' = [op |-> "get_github_updates_summary", kind |-> "summary",
                  value |-> SummaryOf(calls[th].total_updates,
                                      calls[th].formatted_changes, change_history)]
    /\ text' = ""
    /\ analysis_type' = "none"
    /\ SetCall(th, Idle)
    /\ UNCHANGED <<change_history, MCP_AVAILABLE, probe, content_cache, clock, updater>>

\* a thread enters the analyze_content tool: a blank text is rejected at once, another
\* is analysed, which touches nothing shared
CallAnalyzeContent(th, t, type) ==
    /\ calls[th] = Idle
    /\ IF Rejects(t)
       THEN /\ result' = ErrorResult("analyze_content", "No text provided for analysis")
            /\ text' = t
            /\ analysis_type' = type
            /\ UNCHANGED calls
       ELSE \E r \in {analyze_content(t, type)} :
                /\ Len(change_history) + PendingOf(Threads) + Len(r.issues) <= MaxLog
                /\ SetCall(th, [op |-> "analyze_content", text |-> t, type |-> type,
                                value |-> r, k |-> 1])
                /\ UNCHANGED <<text, analysis_type, result>>
    /\ UNCHANGED <<change_history, MCP_AVAILABLE, probe, content_cache, clock, updater>>

\* one turn of the tool's loop over result['issues']: analyzer.track_change for the issue
TrackNextIssue(th) ==
    /\ calls[th].op = "analyze_content"
    /\ calls[th].k <= Len(calls[th].value.issues)
    /\ change_history' = TrackIssue(change_history, calls[th].value.issues[calls[th].k])
    /\ SetCall(th, [calls[th] EXCEPT !.k = @ + 1])
    /\ UNCHANGED <<text, analysis_type, result, MCP_AVAILABLE, probe, content_cache,
                   clock, updater>>

\* the loop is over and the tool returns the analysis
ReturnAnalyzeContent(th) ==
    /\ calls[th].op = "analyze_content"
    /\ calls[th].k > Len(calls[th].value.issues)
    /\ result' = [op |-> "analyze_content", kind |-> "analysis", value |-> calls[th].value]
    /\ text' = calls[th].text
    /\ analysis_type' = calls[th].type
    /\ SetCall(th, Idle)
    /\ UNCHANGED <<change_history, MCP_AVAILABLE, probe, content_cache, clock, updater>>

\* the microsoft_document_reviewer tool, which touches nothing shared
CallDocumentReviewer(th, t) ==
    /\ calls[th] = Idle
    /\ text' = t
    /\ analysis_type' = "all"
    /\ \E rounding \in Roundings :
          result' = IF Rejects(t)
                    THEN ErrorResult("review_document", "No document text provided for review")
                    ELSE [op |-> "review_document", kind |-> "review",
                          value |-> review_document(t, rounding)]
    /\ UNCHANGED <<change_history, MCP_AVAILABLE, probe, content_cache, calls, clock, updater>>

NextThreads ==
    \/ \E th \in Threads, line_number \in TrackedLines :
          CallTrackChange(th, "README.md", line_number, TrackedDescription)
    \/ \E th \in Threads : AppendChange(th)
    \/ \E th \in Threads : CallGetSummary(th)
    \/ \E th \in Threads : FormatNextChange(th)
    \/ \E th \in Threads : ReturnSummary(th)
    \/ \E th \in Threads, t \in ThreadTexts, type \in ThreadTypes :
          CallAnalyzeContent(th, t, type)
    \/ \E th \in Threads : TrackNextIssue(th)
    \/ \E th \in Threads : ReturnAnalyzeContent(th)
    \/ \E th \in Threads, t \in ThreadTexts : CallDocumentReviewer(th, t)

SpecThreads == InitThreads /\ [][NextThreads]_vars

(***************************************************************************)
(* Properties of the server under concurrent calls                         *)
(***************************************************************************)
\* a is a prefix of b
IsPrefix(a, b) == Len(a) <= Len(b) /\ SubSeq(b, 1, Len(a)) = a

\* C17: under any interleaving of concurrent track_change, summary, analyze and review
\* calls the change log only grows at its end: every step leaves the log a prefix of
\* what it becomes and adds at most one entry, a track_change that completes adds
\* exactly its own entry, a step of a summary or of a review adds none, and the log
\* changes only in a step of a track_change or of the analyze tool's tracking loop
C17_LogAppendOnly ==
    [][/\ IsPrefix(change_history, change_history')
       /\ Len(change_history') <= Len(change_history) + 1
       /\ \A th \in Threads :
             /\ (calls[th].op = "track_change" /\ calls'[th] = Idle) =>
                   change_history' =
                      Append(change_history,
                             ChangeEntry(calls[th].file_path, calls[th].line_number,
                                         calls[th].description))
             /\ ((calls[th].op = "summary" \/ calls'[th].op = "summary")
                   /\ calls'[th] # calls[th]) => change_history' = change_history
       /\ (result' # result /\ result'.op = "review_document") =>
             change_history' = change_history
       /\ change_history' # change_history =>
             \E th \in Threads :
                /\ calls[th].op \in {"track_change", "analyze_content"}
                /\ calls'[th] # calls[th]]_vars

\* two writers and a reader interleaved: the log holds a tracked change and behind it
\* the entry of an analyze call still in flight, while a summary in flight has counted
\* fewer entries than the log now holds
C17_Witness ==
    /\ Len(change_history) = 2
    /\ change_history[1].file_path = "README.md"
    /\ change_history[2].file_path = "content_analysis"
    /\ \E th \in Threads : calls[th].op = "analyze_content"
    /\ \E th \in Threads :
          calls[th].op = "summary" /\ calls[th].total_updates < Len(change_history)

(***************************************************************************)
(* The web analyzer over time: fetch_web_content called again and again on  *)
(* a server that stays up, the event loop's clock advancing between calls   *)
(***************************************************************************)
\* the longest time explored, in halves of cache_timeout
MaxTicks == 3

WebUrls == {UrlOf("voice_tone"), UrlOf("top_tips")}

InitWeb ==
    /\ text = ""
    /\ analysis_type = "none"
    /\ result = NoResult
    /\ change_history = <<>>
    /\ MCP_AVAILABLE = TRUE
    /\ probe = NoProbe
    /\ content_cache = EmptyCache
    /\ calls = NoCalls
    /\ clock = 0
    /\ updater = NoUpdater

\* WebEnabledStyleGuideAnalyzer.fetch_web_content(url), called at the time clock
FetchWebContent(url, outcome) ==
    /\ text' = url
    /\ result' = [op |-> "fetch_web_content", kind |-> "page", at |-> clock,
                  value |-> fetch_web_content(content_cache, url, outcome, clock)]
    /\ content_cache' = CacheAfterFetch(content_cache, url, outcome, clock)
    /\ UNCHANGED <<analysis_type, change_history, MCP_AVAILABLE, probe, calls, clock, updater>>

\* half of cache_timeout passes
Tick ==
    /\ clock < MaxTicks * (cache_timeout \div 2)
    /\ clock' = clock + cache_timeout \div 2
    /\ UNCHANGED <<text, analysis_type, result, change_history, MCP_AVAILABLE, probe,
                   content_cache, calls, updater>>

NextWeb ==
    \/ \E url \in WebUrls, outcome \in Outcomes : FetchWebContent(url, outcome)
    \/ Tick

SpecWeb == InitWeb /\ [][NextWeb]_vars

(***************************************************************************)
(* Properties of the web analyzer over time                                *)
(***************************************************************************)
\* C30: the cache honours its timeout: a page fetch_web_content returns is younger than
\* cache_timeout (3600 s) at the time of the call, an older entry making it fetch the
\* url again; and only successful responses are in the cache
C30_CacheHonoursTimeout ==
    /\ (result.op = "fetch_web_content" /\ result.value.success) =>
          result.at - result.value.timestamp < cache_timeout
    /\ \A url \in DOMAIN content_cache : content_cache[url].success

(***************************************************************************)
(* Auto-updater: MCPServerUpdater (src/mcp_updater.py).  A file is kept as  *)
(* what it holds: "old" (the content the installation started with), "new"  *)
(* (the content in the downloaded archive), "partial" (what a write that    *)
(* failed midway left behind) or Absent.  The backup directory is kept the  *)
(* same way.  A key a Python dict lacks is read as PyNone, as dict.get      *)
(* reads it.                                                                *)
(***************************************************************************)
update_files ==
    <<"fastmcp_style_server.py", "fastmcp_style_server_web.py", "copilot_integration.py",
      "requirements.txt", "fastmcp_setup.py", "readme.md">>

preserve_files ==
    <<".vscode/settings.json", "vscode_mcp_config.json", "mcp_manifest.json",
      "test_document.md", "copilot_integration.py">>

version_file == ".mcp_version"

Absent == "absent"
PyNone == "None"

\* bool(v) of a string or None
Truthy(v) == v \notin {PyNone, ""}

InstallationFiles == Range(update_files) \cup Range(preserve_files) \cup {version_file}

\* an installation that holds every file
FullInstallation == [f \in InstallationFiles |-> "old"]

\* an installation that never had the integration files, the readme or a commit update
BareInstallation ==
    [f \in InstallationFiles |->
        IF f \in {"copilot_integration.py", "readme.md", "test_document.md", version_file}
        THEN Absent ELSE "old"]

Installations == {FullInstallation, BareInstallation}

\* what check_for_updates can return: a failure (with or without a message: str(e) of
\* a timeout is empty), no newer release, a newer release, a release without
\* zipball_url, and a newer commit
CheckResults ==
    {[update_available |-> FALSE, error |-> "GitHub API error: 500"],
     [update_available |-> FALSE, error |-> ""],
     [update_available |-> FALSE, download_url |-> "zipball_url", update_method |-> "release"],
     [update_available |-> TRUE, download_url |-> "zipball_url", update_method |-> "release"],
     [update_available |-> TRUE, download_url |-> "", update_method |-> "release"],
     [update_available |-> TRUE, download_url |-> "archive/main.zip",
      update_method |-> "commit"]}

\* a downloaded archive: whether it unpacks into a directory, and for each update file
\* whether the directory holds it ("new"), holds it empty ("empty") or lacks it
FullArchive == [valid |-> TRUE, files |-> [f \in Range(update_files) |-> "new"]]

SparseArchive ==
    [valid |-> TRUE,
     files |-> [f \in Range(update_files) |->
                  IF f = "requirements.txt" THEN "empty"
                  ELSE IF f = "fastmcp_setup.py" THEN Absent ELSE "new"]]

BadArchive == [valid |-> FALSE, files |-> [f \in Range(update_files) |-> Absent]]

Archives == {FullArchive, SparseArchive, BadArchive}

\* the dict perform_update returns: success and action
UpdateResult(success, action) ==
    [op |-> "perform_update", kind |-> "update",
     value |-> [success |-> success, action |-> action]]

\* the returns of perform_update ahead of the backup: the action, "" when it goes on
EarlyAction(update_info, force) ==
    IF ~update_info.update_available /\ ~force THEN "no_update_needed"
    ELSE IF Truthy(Get(update_info, "error", PyNone)) THEN "check_failed"
    ELSE IF ~Truthy(Get(update_info, "download_url", PyNone)) THEN "no_download_url"
    ELSE ""

\* create_backup: the backup directory after it, a copy of every listed file there is
create_backup(files) ==
    [f \in DOMAIN files |->
        IF f \in Range(update_files \o preserve_files) THEN files[f] ELSE Absent]

\* the loop of extract_and_apply_update on one file the archive holds: the file is
\* backed up again when it exists and the new file is copied over it
ApplyFile(u, f) ==
    [u EXCEPT !.backup = IF u.files[f] # Absent THEN [@ EXCEPT ![f] = u.files[f]] ELSE @,
              !.files = [@ EXCEPT ![f] = "new"],
              !.updated_files = Append(@, f),
              !.k = @ + 1]

\* the copy of the new file raises: the destination is as it was, or half written
ApplyFileFails(u, f, damage) ==
    [u EXCEPT !.backup = IF u.files[f] # Absent THEN [@ EXCEPT ![f] = u.files[f]] ELSE @,
              !.files = [@ EXCEPT ![f] = IF damage THEN "partial" ELSE @],
              !.pc = "restore"]

\* restore_backup, its loop over update_files + preserve_files getting through the
\* first n entries: an entry that has a backup is copied back
restore_backup(files, backup, n) ==
    [f \in DOMAIN files |->
        IF /\ \E i \in 1..n : (update_files \o preserve_files)[i] = f
           /\ backup[f] # Absent
        THEN backup[f] ELSE files[f]]

(***************************************************************************)
(* perform_update, step by step                                            *)
(***************************************************************************)
InitUpdater ==
    /\ text = ""
    /\ analysis_type = "none"
    /\ result = NoResult
    /\ change_history = <<>>
    /\ MCP_AVAILABLE = TRUE
    /\ probe = NoProbe
    /\ content_cache = EmptyCache
    /\ calls = NoCalls
    /\ clock = 0
    /\ \E installation \in Installations :
          updater = [pc |-> "idle", files |-> installation, installed |-> installation,
                     backup |-> [f \in InstallationFiles |-> Absent], backup_path |-> "",
                     force |-> FALSE, update_info |-> [update_available |-> FALSE],
                     downloaded |-> FALSE, archive |-> BadArchive, k |-> 1,
                     updated_files |-> <<>>]

\* perform_update(force) up to the backup: check_for_updates and the early returns
PerformUpdate(force, update_info) ==
    /\ updater.pc = "idle"
    /\ IF EarlyAction(update_info, force) = ""
       THEN /\ updater' = [updater EXCEPT !.pc = "backup", !.force = force,
                                          !.update_info = update_info]
            /\ UNCHANGED result
       ELSE /\ updater' = [updater EXCEPT !.pc = "done", !.force = force,
                                          !.update_info = update_info]
            /\ result' = UpdateResult(EarlyAction(update_info, force) = "no_update_needed",
                                      EarlyAction(update_info, force))
    /\ UNCHANGED <<text, analysis_type, change_history, MCP_AVAILABLE, probe,
                   content_cache, calls, clock>>

\* backup_path = self.create_backup(); an exception there ends perform_update
CreateBackup(ok) ==
    /\ updater.pc = "backup"
    /\ IF ok
       THEN /\ updater' = [updater EXCEPT !.pc = "download",
                                          !.backup = create_backup(updater.files),
                                          !.backup_path = "backups/backup"]
            /\ UNCHANGED result
       ELSE /\ updater' = [updater EXCEPT !.pc = "done"]
            /\ result' = UpdateResult(FALSE, "update_error")
    /\ UNCHANGED <<text, analysis_type, change_history, MCP_AVAILABLE, probe,
                   content_cache, calls, clock>>

\* self.download_update(download_url, zip_path), into a temporary directory
DownloadUpdate(ok, archive) ==
    /\ updater.pc = "download"
    /\ IF ok
       THEN /\ updater' = [updater EXCEPT !.pc = "extract", !.downloaded = TRUE,
                                          !.archive = archive]
            /\ UNCHANGED result
       ELSE /\ updater' = [updater EXCEPT !.pc = "done"]
            /\ result' = UpdateResult(FALSE, "download_failed")
    /\ UNCHANGED <<text, analysis_type, change_history, MCP_AVAILABLE, probe,
                   content_cache, calls, clock>>

\* extract_and_apply_update: the archive is unpacked and its directory looked for
ExtractUpdate ==
    /\ updater.pc = "extract"
    /\ updater' = [updater EXCEPT !.pc = IF updater.archive.valid THEN "apply"
                                         ELSE "restore"]
    /\ UNCHANGED <<text, analysis_type, result, change_history, MCP_AVAILABLE, probe,
                   content_cache, calls, clock>>

\* one turn of "for file_name in self.update_files"
UpdateFile(outcome) ==
    /\ updater.pc = "apply"
    /\ updater.k <= Len(update_files)
    /\ IF updater.archive.files[update_files[updater.k]] = "new"
       THEN updater' = IF outcome = "ok"
                       THEN ApplyFile(updater, update_files[updater.k])
                       ELSE ApplyFileFails(updater, update_files[updater.k],
                                           outcome = "breaks")
       ELSE /\ outcome = "ok"
            /\ updater' = [updater EXCEPT !.k = @ + 1]
    /\ UNCHANGED <<text, analysis_type, result, change_history, MCP_AVAILABLE, probe,
                   content_cache, calls, clock>>

\* the loop is over: .mcp_version is written after a commit-based update, and
\* perform_update returns "updated"
WriteVersion(outcome) ==
    /\ updater.pc = "apply"
    /\ updater.k > Len(update_files)
    /\ IF Get(updater.update_info, "update_method", PyNone) = "commit"
       THEN IF outcome = "ok"
            THEN /\ updater' = [updater EXCEPT !.pc = "done",
                                               !.files = [@ EXCEPT ![version_file] = "new"]]
                 /\ result' = UpdateResult(TRUE, "updated")
            ELSE /\ updater' = [updater EXCEPT
                                  !.pc = "restore",
                                  !.files = [@ EXCEPT ![version_file] =
                                               IF outcome = "breaks" THEN "partial" ELSE @]]
                 /\ UNCHANGED result
       ELSE /\ outcome = "ok"
            /\ updater' = [updater EXCEPT !.pc = "done"]
            /\ result' = UpdateResult(TRUE, "updated")
    /\ UNCHANGED <<text, analysis_type, change_history, MCP_AVAILABLE, probe,
                   content_cache, calls, clock>>

\* the except branch of extract_and_apply_update: self.restore_backup(backup_path), which
\* gets through n entries (all of them, or up to a copy that raises), and then
\* perform_update returns "update_failed"
RestoreBackup(n) ==
    /\ updater.pc = "restore"
    /\ IF n < Len(update_files \o preserve_files)
       THEN updater.backup[(update_files \o preserve_files)[n + 1]] # Absent
       ELSE TRUE
    /\ updater' = [updater EXCEPT !.pc = "done",
                                  !.files = restore_backup(@, updater.backup, n)]
    /\ result' = UpdateResult(FALSE, "update_failed")
    /\ UNCHANGED <<text, analysis_type, change_history, MCP_AVAILABLE, probe,
                   content_cache, calls, clock>>

CopyOutcomes == {"ok", "fails", "breaks"}

NextUpdater ==
    \/ \E force \in BOOLEAN, update_info \in CheckResults : PerformUpdate(force, update_info)
    \/ \E ok \in BOOLEAN : CreateBackup(ok)
    \/ \E ok \in BOOLEAN, archive \in Archives : DownloadUpdate(ok, archive)
    \/ ExtractUpdate
    \/ \E outcome \in CopyOutcomes : UpdateFile(outcome)
    \/ \E outcome \in CopyOutcomes : WriteVersion(outcome)
    \/ \E n \in 0..Len(update_files \o preserve_files) : RestoreBackup(n)

SpecUpdater == InitUpdater /\ [][NextUpdater]_vars

(***************************************************************************)
(* Properties of the updater                                               *)
(***************************************************************************)
Updated == result.op = "perform_update"

\* C26: when applying the update fails after files were written and perform_update
\* returns "update_failed", every update file is as it was before perform_update
\* started: same content if it existed, absent if it did not
C26_FailedUpdateRestoresFiles ==
    (Updated /\ result.value.action = "update_failed" /\ updater.updated_files # <<>>) =>
        \A f \in Range(update_files) : updater.files[f] = updater.installed[f]

\* C27: a successful perform_update leaves every file of preserve_files with the
\* content it had before
C27_PreservedFilesKept ==
    (Updated /\ result.value.action = "updated") =>
        \A f \in Range(preserve_files) : updater.files[f] = updater.installed[f]

\* C28: when the result of check_for_updates carries an error, perform_update reports
\* the failure "check_failed", with force and without it, and never the success
\* "no_update_needed"
C28_CheckFailureReported ==
    (Updated /\ "error" \in DOMAIN updater.update_info) =>
        /\ ~result.value.success
        /\ result.value.action = "check_failed"

\* C29: no installation file is written before create_backup has completed and the
\* download has succeeded; and when the update check, the look-up of the download URL,
\* the backup or the download fails, perform_update returns a failure and every
\* installation file is as it was
C29_NoWriteBeforeBackupAndDownload ==
    /\ [][updater'.files # updater.files =>
             (updater.backup_path # "" /\ updater.downloaded)]_vars
    /\ []((Updated /\ (\/ "error" \in DOMAIN updater.update_info
                       \/ result.value.action
                            \in {"no_download_url", "update_error", "download_failed"})) =>
             (~result.value.success /\ updater.files = updater.installed))

====
